---- MODULE Spec2Model ----
(***************************************************************************)
(* Verification model of the MCP context service                           *)
(* (src/mcp-poc/services/context-service) and of the MCP text              *)
(* summarization service (src/mcp-poc/services/text-summarization).        *)
(*                                                                         *)
(* The components are modelled each under its own specifications:          *)
(*   Spec      the tenant-scoped data gateway (repository.py)              *)
(*   SpecPut   the gateway under concurrent PUT /context/{id} handlers     *)
(*   SpecRate  the in-memory rate limiter (main.py)                        *)
(*   SpecRateConc  the rate limiter under concurrent requests              *)
(*   SpecAuth  the JWKS cache and the token validator (auth.py)            *)
(*   SpecFetch the JWKS cache under concurrent get_jwks calls              *)
(*   SpecHttp  the middleware chain and the dependencies of the routes     *)
(*             (middleware.py, main.py)                                    *)
(*   SpecFormat  the format checks of the tenant id, in the middleware     *)
(*             and in the gateway                                          *)
(*   SpecSum   the retry and fallback engine of the summarization          *)
(*             pipeline and its semantic scorer (pipeline.py)              *)
(*   SpecSumLive  the same, with every awaited backend call coming back    *)
(* All specifications share one logical clock, `now`.                      *)
(***************************************************************************)
EXTENDS Integers, Sequences, FiniteSets, TLC

VARIABLES
    now,        \* the clock: NOW() of the database, time.time() of the service
    db,         \* namespace -> context id -> the row stored under that id
    last,       \* the last gateway call: its arguments and what it returned
    connection, \* the connection of the last gateway call, and those left open
    puts,       \* concurrent PUT /context/{id} handlers and their positions
    requests,   \* InMemoryRateLimiter.requests: client key -> timestamps
    allowedAt,  \* history: client key -> the times of its allowed requests
    rejectedAt, \* history: client key -> the times it was turned away
    limited,    \* the last rate_limit_check: its client and its outcome
    inflight,   \* concurrent requests in rate_limit_check, and the one running
    keysCache,       \* JWKSManager._keys_cache: NULL is the empty dict
    cacheTimestamp,  \* JWKSManager._cache_timestamp
    auth,       \* the last call of the key cache or of the token validator
    fetching,   \* concurrent get_jwks calls, their positions and their order
    require_tenant_id,  \* settings.security.require_tenant_id
    http,       \* the last request through the middleware chain
    tenant_format,  \* the last tenant id put to the two format checks
    pipeline    \* generate_summary: its request, its locals, its position

gwVars == <<db, last, connection, puts>>
rateVars == <<requests, allowedAt, rejectedAt, limited, inflight>>
jwksVars == <<keysCache, cacheTimestamp>>
authVars == <<keysCache, cacheTimestamp, auth, fetching>>
httpVars == <<require_tenant_id, http, tenant_format>>
vars == <<now, db, last, connection, puts, requests, allowedAt, rejectedAt, limited,
          inflight,
          keysCache, cacheTimestamp, auth, fetching, require_tenant_id, http, tenant_format,
          pipeline>>

----------------------------------------------------------------------------
(* Bounds of the model. *)

MaxTime == 2
MaxVersion == 2
RateLimitCalls == 2     \* settings.security.rate_limit_calls
MaxInFlight == 2        \* requests served concurrently by one event loop
RateLimitPeriod == 2    \* settings.security.rate_limit_period
cache_ttl == 2          \* JWKSManager.cache_ttl, in ticks of the clock
max_age == 1            \* the validator's greatest token age, in ticks
MaxFetches == 3         \* the fetches begun in a run of concurrent get_jwks calls
MaxTenantLen == 3       \* the longest X-Tenant-ID put to the format checks
MaxRetries == 3         \* the greatest retry_attempts of a summarization request

----------------------------------------------------------------------------
(* Values. *)

\* A nullable value is NULL or Some(v).
NULL == <<>>
Some(v) == <<v>>
ValueOf(o) == o[1]
Times == 0..MaxTime
InFlight == 1..MaxInFlight

\* Tenant ids are strings; they are modelled as sequences of characters so
\* that the charset rule and the identifier rules act on them character by
\* character.
Letters == {"a", "c", "b", "z", "t", "x", "A", "r", "o"}
Digits == {"1"}
TenantInputs ==
    { <<"a", "c">>, <<"A", "c">>, <<"b", "z">>, <<"t", "-", "1">>, <<"x", "@">> }

UpperCase == {"A"}
ContextIds == {"ctx_1"}
\* The tenants of the concurrent requests.
PutTenants == { <<"a", "c">> }
Payloads == {"P1", "P2"}

----------------------------------------------------------------------------
(* The tenant-scoped connection: TenantAwareDB, repository.py:22-59.        *)

\* str.isalnum() of one character.
IsAlnumChar(c) == c \in Letters \cup Digits

\* tenant_id.replace('-', '').replace('_', '')
StripSeparators(t) == SelectSeq(t, LAMBDA c : c \notin {"-", "_"})

\* The charset rule of set_search_path: the tenant id is accepted when it is
\* not empty and, with hyphens and underscores removed, is alphanumeric
\* ("".isalnum() is False).
IsValidTenantCharset(t) ==
    /\ t # <<>>
    /\ StripSeparators(t) # <<>>
    /\ \A i \in 1..Len(StripSeparators(t)) : IsAlnumChar(StripSeparators(t)[i])

\* schema_name = f"tenant_{tenant_id}"
SchemaName(t) == <<"tenant_">> \o t

\* SET search_path TO {schema_name}, public: the schema name is spliced into
\* the statement as an unquoted SQL identifier.  An unquoted identifier holds
\* letters, digits and underscores only (any other character ends it, and the
\* statement is then a syntax error), and it is folded to lower case.
IsIdentifierChar(c) == c \in Letters \cup Digits \cup {"_", "tenant_"}
LowerOf == ("A" :> "a")
FoldChar(c) == IF c \in UpperCase THEN LowerOf[c] ELSE c
FoldIdentifier(s) == [i \in 1..Len(s) |-> FoldChar(s[i])]
ExecuteSetSearchPath(schema) ==
    IF \A i \in 1..Len(schema) : IsIdentifierChar(schema[i])
    THEN [ok |-> TRUE, namespace |-> FoldIdentifier(schema)]
    ELSE [ok |-> FALSE, namespace |-> NULL]

\* get_connection: connect, validate the tenant id, switch the namespace.
\* Whatever is raised on the way, or inside the caller's block, leaves
\* get_connection as a DatabaseError.
GetConnection(t, connects) ==
    IF ~connects THEN [ok |-> FALSE, namespace |-> NULL]
    ELSE IF ~IsValidTenantCharset(t) THEN [ok |-> FALSE, namespace |-> NULL]
    ELSE ExecuteSetSearchPath(SchemaName(t))

\* What get_connection raises before it yields the connection: the error of
\* asyncpg.connect, the ValueError of set_search_path, or the syntax error
\* the server answers to a schema name that is no identifier.
BeforeYield(t, connects) ==
    IF ~connects THEN "ConnectionError"
    ELSE IF ~IsValidTenantCharset(t) THEN "ValueError"
    ELSE IF ~ExecuteSetSearchPath(SchemaName(t)).ok THEN "PostgresSyntaxError"
    ELSE ""

\* The exit path of get_connection; block is what the caller's block raised.
ExitPath(t, connects, block) ==
    IF ~connects THEN "connect failed"
    ELSE IF ~IsValidTenantCharset(t) THEN "invalid tenant id"
    ELSE IF ~ExecuteSetSearchPath(SchemaName(t)).ok THEN "namespace switch failed"
    ELSE IF block # "" THEN "block raised"
    ELSE "completed"

\* "finally: if conn: await conn.close()": conn is set once asyncpg.connect
\* has returned, and the finally clause runs on every exit.
ClosesOnCleanExit(acquired, raised) == IF acquired /\ raised = "" THEN 1 ELSE 0
Closes(acquired, raised) == IF acquired THEN 1 ELSE 0

\* The exception classes of the driver that derive from PostgresError.
PostgresErrors == {"PostgresSyntaxError", "UniqueViolationError"}

\* The except clauses of get_connection: a PostgresError, and any other
\* exception, raised before the yield or thrown in by the caller's block,
\* leaves as a DatabaseError (with one of two messages).
LeavesGetConnection(raised) ==
    IF raised = "" THEN [ type |-> "", message |-> "" ]
    ELSE IF raised \in PostgresErrors
    THEN [ type |-> "DatabaseError", message |-> "Database connection failed" ]
    ELSE [ type |-> "DatabaseError", message |-> "Unexpected database error" ]

\* The statements sent over one connection of get_connection, in order.
\* set_search_path executes its SET, the schema name spliced in, only for
\* a tenant id that passed the charset rule; the caller's block sends its
\* statement once get_connection has yielded, that is once the SET was
\* accepted.
SwitchStatement(t) == [ kind |-> "SET search_path", schema |-> SchemaName(t) ]
QueryStatement == [ kind |-> "query", schema |-> <<>> ]
SetSearchPathUnvalidated(t) == <<SwitchStatement(t)>>
SetSearchPath(t) ==
    IF IsValidTenantCharset(t) THEN <<SwitchStatement(t)>> ELSE <<>>
Statements(t, connects) ==
    IF ~connects THEN <<>>
    ELSE SetSearchPath(t)
         \o (IF GetConnection(t, connects).ok THEN <<QueryStatement>>
                                              ELSE <<>>)

NoConnection ==
    [ acquired |-> FALSE, closed |-> 0, open |-> 0, exit |-> "none",
      raised |-> "", statements |-> <<>> ]

\* One use of get_connection, from asyncpg.connect to the finally clause.
Raised(t, connects, block) ==
    IF BeforeYield(t, connects) # "" THEN BeforeYield(t, connects) ELSE block
Released(t, connects, block) ==
    [ acquired |-> connects,
      closed |-> Closes(connects, Raised(t, connects, block)),
      open |-> connection.open + (IF connects THEN 1 ELSE 0)
                  - Closes(connects, Raised(t, connects, block)),
      exit |-> ExitPath(t, connects, block),
      raised |-> Raised(t, connects, block),
      statements |-> Statements(t, connects) ]

\* The namespaces the tenant ids of the model can select.  Each holds a
\* contexts table (spec section 6: provisioning precedes the gateway's use).
Namespaces ==
    { GetConnection(t, TRUE).namespace :
        t \in { u \in TenantInputs : GetConnection(u, TRUE).ok } }

TenantsOf(ns) ==
    { t \in TenantInputs : GetConnection(t, TRUE).ok
                            /\ GetConnection(t, TRUE).namespace = ns }

----------------------------------------------------------------------------
(* Rows of the contexts table and the statements of ContextRepository.      *)

\* json.dumps and json.loads of the payload column.
JsonDumps(v) == <<"json", v>>
JsonLoads(s) == s[2]

\* expires_at IS NULL OR expires_at > NOW()
VisibleThroughExpiryInstant(row) ==
    row.expires_at = NULL \/ ValueOf(row.expires_at) >= now
Visible(row) == row.expires_at = NULL \/ ValueOf(row.expires_at) > now

\* expires_at IS NOT NULL AND expires_at <= NOW()
Expired(row) == row.expires_at # NULL /\ ValueOf(row.expires_at) <= now

\* COALESCE($n, column)
CoalesceOverwrites(a, b) == a
Coalesce(a, b) == IF a # NULL THEN a ELSE b

\* version = version + 1
NextVersionOnlyWhenChanged(v) == v
NextVersion(v) == v + 1

\* The INSERT of create_context has the placeholders $1..$9 and is called
\* with ten arguments; the driver binds a statement only when the number
\* of arguments equals the number of placeholders (InterfaceError otherwise).
InsertPlaceholders == 9
InsertArguments(t, id, req) ==
    << id, Some(JsonDumps(req.context_data)), req.context_type, req.title,
       req.description, req.tags, t, req.user_id, Some(now), req.expires_at >>
BindArguments(placeholders, args) ==
    IF Len(args) = placeholders
    THEN [ok |-> TRUE, args |-> args]
    ELSE [ok |-> FALSE, args |-> <<>>]

\* VALUES ($1, $2, $3, $4, $5, $6, $7, $8, NOW(), NOW(), $9, 1)
InsertedRow(a) ==
    [ id |-> a[1], context_data |-> a[2], context_type |-> a[3],
      title |-> a[4], description |-> a[5], tags |-> a[6],
      tenant_id |-> a[7], user_id |-> a[8], created_at |-> now,
      updated_at |-> now, expires_at |-> a[9], version |-> 1 ]

\* The SET clause of update_context.
UpdatedRow(row, upd) ==
    [ row EXCEPT
        !.context_data = Coalesce(IF upd.context_data # NULL
                                  THEN Some(JsonDumps(ValueOf(upd.context_data)))
                                  ELSE NULL, @),
        !.title = Coalesce(upd.title, @),
        !.description = Coalesce(upd.description, @),
        !.tags = Coalesce(upd.tags, @),
        !.updated_at = now,
        !.expires_at = Coalesce(upd.expires_at, @),
        !.version = NextVersion(@) ]

\* The SET clause of delete_context.
SoftDeletedRowKeepsExpiry(row) == [ row EXCEPT !.updated_at = now ]
SoftDeletedRow(row) ==
    [ row EXCEPT !.expires_at = Some(now), !.updated_at = now ]

\* dict(result) with context_data parsed when it is truthy.
AsContextDict(row) ==
    IF row.context_data # NULL
    THEN [ row EXCEPT !.context_data = JsonLoads(ValueOf(@)) ]
    ELSE row

\* int(result.split()[-1]) of the command tag "UPDATE n" / "DELETE n".
CommandTag(verb, n) == <<verb, n>>
RowsAffected(tag) == tag[Len(tag)]

----------------------------------------------------------------------------
(* Inputs of the gateway calls.                                             *)

CreateRequests ==
    [ context_data : Payloads, context_type : {"type1"},
      title : {Some("T1")}, description : {NULL}, tags : {Some("[]")},
      user_id : {Some("u1")}, expires_at : {NULL} ]

NoUpdate ==
    [ context_data |-> NULL, title |-> NULL, description |-> NULL,
      tags |-> NULL, expires_at |-> NULL ]

UpdateInputs ==
    { NoUpdate,
      [NoUpdate EXCEPT !.title = Some("T2")],
      [NoUpdate EXCEPT !.expires_at = Some(0)],
      [ context_data |-> Some("P2"), title |-> Some("T2"),
        description |-> Some("D2"), tags |-> Some("[x]"),
        expires_at |-> Some(MaxTime) ] }

ListFilters == {NULL, Some("type2")}
ListLimits == {1}
ListOffsets == {0, 1}

\* A row as it stands in the table when the service starts: stored through
\* a session of tenant t, never updated.
StoredRow(t, id, exp) ==
    [ id |-> id, context_data |-> Some(JsonDumps("P1")),
      context_type |-> "type1", title |-> Some("T1"), description |-> NULL,
      tags |-> Some("[]"), tenant_id |-> t, user_id |-> Some("u1"),
      created_at |-> 0, updated_at |-> 0, expires_at |-> exp, version |-> 1 ]

EmptyTable == [ i \in {} |-> NULL ]

StartTables(ns) ==
    {EmptyTable} \cup
    { [ i \in ids |-> StoredRow(t, i, exp) ] :
        ids \in (SUBSET ContextIds) \ {{}},
        t \in TenantsOf(ns),
        exp \in {NULL, Some(1)} }

----------------------------------------------------------------------------
(* The gateway: ContextRepository, repository.py:62-325.                    *)

Returned(op, t, id, arg, connects, status, value) ==
    [ op |-> op, tenant |-> t, id |-> id, arg |-> arg, connects |-> connects,
      status |-> status, value |-> value ]

\* No call made yet.
NoCall ==
    [ op |-> "none", tenant |-> <<>>, id |-> NULL, arg |-> NULL,
      connects |-> FALSE, status |-> "ok", value |-> NULL ]

Exists(ns, id) == id \in DOMAIN db[ns]

\* What conn.fetchrow raises for the INSERT: the driver's InterfaceError
\* when the arguments do not fit the placeholders, else the server's
\* unique violation when the id is taken.
InsertRaises(bound, ns, id) ==
    IF ~bound.ok THEN "InterfaceError"
    ELSE IF Exists(ns, id) THEN "UniqueViolationError"
    ELSE ""

\* The handlers of create_context, applied to what leaves the "async with".
CreateContextError(e) ==
    IF e.type = "UniqueViolationError"
    THEN "Context with this ID already exists"
    ELSE "Failed to create context"

create_context(t, req, id, connects) ==
    LET c == GetConnection(t, connects)
        bound == BindArguments(InsertPlaceholders, InsertArguments(t, id, req))
        block == IF c.ok THEN InsertRaises(bound, c.namespace, id) ELSE ""
    IN  /\ IF c.ok /\ block = ""
           THEN /\ db' = [db EXCEPT ![c.namespace] =
                            (id :> InsertedRow(bound.args)) @@ @]
                /\ last' = Returned("create_context", t, id, req, connects, "ok", id)
           ELSE /\ db' = db
                /\ last' = Returned("create_context", t, id, req, connects,
                                    "DatabaseError",
                                    CreateContextError(LeavesGetConnection(
                                        Raised(t, connects, block))))
        /\ connection' = Released(t, connects, block)
        /\ UNCHANGED now

get_context(t, id, connects) ==
    LET c == GetConnection(t, connects)
    IN  /\ IF ~c.ok
           THEN last' = Returned("get_context", t, id, NULL, connects,
                                 "DatabaseError",
                                 "Failed to retrieve context")
           ELSE IF Exists(c.namespace, id) /\ Visible(db[c.namespace][id])
           THEN last' = Returned("get_context", t, id, NULL, connects, "ok",
                                 Some(AsContextDict(db[c.namespace][id])))
           ELSE last' = Returned("get_context", t, id, NULL, connects, "ok", NULL)
        /\ connection' = Released(t, connects, "")
        /\ UNCHANGED <<now, db>>

\* The statement of update_context and what the call returns: one UPDATE,
\* which the server applies to the row as a whole.
ExecuteUpdate(t, id, upd, connects) ==
    LET c == GetConnection(t, connects)
        hit == c.ok /\ Exists(c.namespace, id) /\ Visible(db[c.namespace][id])
        tag == CommandTag("UPDATE", IF hit THEN 1 ELSE 0)
    IN  /\ IF ~c.ok
           THEN /\ db' = db
                /\ last' = Returned("update_context", t, id, upd, connects,
                                    "DatabaseError",
                                    "Failed to update context")
           ELSE /\ db' = IF hit
                         THEN [db EXCEPT ![c.namespace][id] = UpdatedRow(@, upd)]
                         ELSE db
                /\ last' = Returned("update_context", t, id, upd, connects, "ok",
                                    RowsAffected(tag) > 0)
        /\ connection' = Released(t, connects, "")
        /\ UNCHANGED now

update_context(t, id, upd, connects) ==
    LET c == GetConnection(t, connects)
        hit == c.ok /\ Exists(c.namespace, id) /\ Visible(db[c.namespace][id])
    IN  /\ hit => db[c.namespace][id].version < MaxVersion
        /\ ExecuteUpdate(t, id, upd, connects)

delete_context(t, id, connects) ==
    LET c == GetConnection(t, connects)
        hit == c.ok /\ Exists(c.namespace, id) /\ Visible(db[c.namespace][id])
        tag == CommandTag("UPDATE", IF hit THEN 1 ELSE 0)
    IN  /\ IF ~c.ok
           THEN /\ db' = db
                /\ last' = Returned("delete_context", t, id, NULL, connects,
                                    "DatabaseError",
                                    "Failed to delete context")
           ELSE /\ db' = IF hit
                         THEN [db EXCEPT ![c.namespace][id] = SoftDeletedRow(@)]
                         ELSE db
                /\ last' = Returned("delete_context", t, id, NULL, connects, "ok",
                                    RowsAffected(tag) > 0)
        /\ connection' = Released(t, connects, "")
        /\ UNCHANGED now

\* The rows a list query selects, before ORDER BY, LIMIT and OFFSET.
ListMatches(ns, context_type, user_id) ==
    { i \in DOMAIN db[ns] :
        /\ Visible(db[ns][i])
        /\ context_type # NULL => db[ns][i].context_type = ValueOf(context_type)
        /\ user_id # NULL => db[ns][i].user_id = user_id }

\* ORDER BY created_at DESC: any order of the matches that is newest first.
NewestFirst(ns, S) ==
    { f \in [1..Cardinality(S) -> S] :
        /\ \A i, j \in 1..Cardinality(S) : i # j => f[i] # f[j]
        /\ \A i, j \in 1..Cardinality(S) :
              i < j => db[ns][f[i]].created_at >= db[ns][f[j]].created_at }

Page(seq, limit, offset) ==
    SubSeq(seq, offset + 1,
           IF offset + limit < Len(seq) THEN offset + limit ELSE Len(seq))

list_contexts(t, context_type, user_id, limit, offset, connects) ==
    LET c == GetConnection(t, connects)
    IN  /\ IF ~c.ok
           THEN last' = Returned("list_contexts", t, NULL, context_type, connects,
                                 "DatabaseError",
                                 "Failed to list contexts")
           ELSE \E ord \in NewestFirst(c.namespace,
                                       ListMatches(c.namespace, context_type, user_id)) :
                  last' = Returned("list_contexts", t, NULL, context_type, connects, "ok",
                            [ k \in DOMAIN Page(ord, limit, offset) |->
                                AsContextDict(db[c.namespace][Page(ord, limit, offset)[k]]) ])
        /\ connection' = Released(t, connects, "")
        /\ UNCHANGED <<now, db>>

cleanup_expired_contexts(t, connects) ==
    LET c == GetConnection(t, connects)
        gone == IF c.ok
                THEN { i \in DOMAIN db[c.namespace] : Expired(db[c.namespace][i]) }
                ELSE {}
        tag == CommandTag("DELETE", Cardinality(gone))
    IN  /\ IF ~c.ok
           THEN /\ db' = db
                /\ last' = Returned("cleanup_expired_contexts", t, NULL, NULL,
                                    connects, "DatabaseError", "Failed to cleanup contexts")
           ELSE /\ db' = [db EXCEPT ![c.namespace] =
                            [ i \in (DOMAIN @) \ gone |-> @[i] ]]
                /\ last' = Returned("cleanup_expired_contexts", t, NULL, NULL,
                                    connects, "ok",
                                    RowsAffected(tag))
        /\ connection' = Released(t, connects, "")
        /\ UNCHANGED now

----------------------------------------------------------------------------
(* The handler of PUT /context/{id}, main.py:518-612, served concurrently.  *)
(* A handler is a coroutine: between two of its awaits it runs alone, and   *)
(* at each await (the UPDATE of update_context, the SELECT of get_context)  *)
(* other handlers and other gateway calls may run.                          *)

NoPuts ==
    [ p \in InFlight |->
        [ at |-> "idle", tenant |-> <<>>, id |-> "", upd |-> NoUpdate,
          applied |-> FALSE, pre |-> 0, result |-> NoCall,
          updated |-> FALSE, response |-> NULL ] ]

\* HTTPException(status_code, detail["error_code"]) and ContextResponse.
HttpError(status, code) == [ status |-> status, error_code |-> code, body |-> NULL ]
ContextResponse(context_data) ==
    [ status |-> 200, error_code |-> "", body |-> Some(context_data) ]

\* The namespace the calls of handler p run in.
NamespaceOf(p) == GetConnection(puts[p].tenant, TRUE).namespace

\* The handler is entered and awaits context_repo.update_context.
put_received(p, t, id, upd) ==
    /\ puts[p].at = "idle"
    /\ puts' = [puts EXCEPT ![p] = [ @ EXCEPT !.at = "update", !.tenant = t,
                                               !.id = id, !.upd = upd ]]
    /\ UNCHANGED <<now, db, last, connection>>

\* The server executes the UPDATE of handler p.
put_update(p) ==
    /\ puts[p].at = "update"
    /\ ExecuteUpdate(puts[p].tenant, puts[p].id, puts[p].upd, TRUE)
    /\ puts' = [puts EXCEPT ![p] =
                  [ @ EXCEPT !.at = "updated",
                             !.applied = last'.status = "ok" /\ last'.value,
                             !.pre = IF last'.status = "ok" /\ last'.value
                                     THEN db[NamespaceOf(p)][puts[p].id].version
                                     ELSE 0,
                             !.result = last' ]]

\* update_context has returned to the handler: 404 when no row was updated,
\* 500 on a DatabaseError, else the handler awaits get_context.
put_updated(p) ==
    /\ puts[p].at = "updated"
    /\ puts' = [puts EXCEPT ![p] =
                  IF puts[p].result.status # "ok"
                  THEN [ @ EXCEPT !.at = "done",
                                  !.response = Some(HttpError(500, "DATABASE_ERROR")) ]
                  ELSE IF ~puts[p].result.value
                  THEN [ @ EXCEPT !.at = "done",
                                  !.response = Some(HttpError(404, "CONTEXT_NOT_FOUND")) ]
                  ELSE [ @ EXCEPT !.at = "read", !.updated = TRUE ]]
    /\ UNCHANGED <<now, db, last, connection>>

\* The read-back: get_context, and the handler's answer.
put_read_back(p) ==
    /\ puts[p].at = "read"
    /\ get_context(puts[p].tenant, puts[p].id, TRUE)
    /\ puts' = [puts EXCEPT ![p] =
                  [ @ EXCEPT !.at = "done",
                             !.response =
                                IF last'.status # "ok"
                                THEN Some(HttpError(500, "DATABASE_ERROR"))
                                ELSE IF last'.value = NULL
                                THEN Some(HttpError(500, "CONTEXT_RETRIEVAL_FAILED"))
                                ELSE Some(ContextResponse(ValueOf(last'.value))) ]]

\* Time passes.
Tick == now < MaxTime /\ now' = now + 1

----------------------------------------------------------------------------
(* The rate limiter: InMemoryRateLimiter, main.py:81-110.                   *)

ClientKeys == {"ip1", "ip2"}

\* [req_time for req_time in self.requests[key] if now - req_time < self.period]
CleanOld(times) == SelectSeq(times, LAMBDA t : now - t < RateLimitPeriod)

\* len(self.requests[key]) >= self.calls
LimitReachedAboveCalls(n) == n > RateLimitCalls
LimitReached(n) == n >= RateLimitCalls

\* The list is_allowed leaves for the key: the request is recorded only
\* when it is allowed (the rejecting branch returns before the append).
RecordedAlways(cleaned, allowed) == Append(cleaned, now)
Recorded(cleaned, allowed) == IF allowed THEN Append(cleaned, now) ELSE cleaned

\* is_allowed(key) returning `allowed`.  A key the limiter has not seen
\* holds the empty list.
is_allowed(key, allowed) ==
    LET cleaned == CleanOld(requests[key])
    IN  /\ allowed = ~LimitReached(Len(cleaned))
        /\ requests' = [requests EXCEPT ![key] = Recorded(cleaned, allowed)]

\* The dependency of every route: the key is the client's address, and a
\* request the limiter turns away is answered 429.
rate_limit_check(client) ==
    \E allowed \in BOOLEAN :
        /\ is_allowed(client, allowed)
        /\ limited' = [ key |-> client, allowed |-> allowed,
                        status |-> IF allowed THEN 200 ELSE 429 ]
        /\ allowedAt' = IF allowed
                            THEN [allowedAt EXCEPT ![client] = Append(@, now)]
                            ELSE allowedAt
        /\ rejectedAt' = IF allowed
                            THEN rejectedAt
                            ELSE [rejectedAt EXCEPT ![client] = @ \cup {now}]
        /\ UNCHANGED <<now, inflight>>

\* Concurrent requests.  The service handles its requests as coroutines of
\* one event loop: a coroutine runs until it awaits, and only then can
\* another one run.  rate_limit_check calls is_allowed without an await,
\* and is_allowed is a plain function: between its statements the
\* coroutine does not yield.  A request is idle, has arrived (it awaits
\* the stages before the limiter), has evicted the old timestamps, has
\* passed the test of the limit, or has left the limiter, allowed or
\* rejected.
NoneInFlight ==
    [ running |-> NULL,
      reqs |-> [ r \in InFlight |-> [ at |-> "idle", key |-> "ip1", t |-> 0 ] ] ]

\* The positions at which the coroutine of a request is suspended, so that
\* the event loop can run another one.
YieldsAnywhere(at) == TRUE
Yields(at) == at \in { "idle", "arrived", "allowed", "rejected" }

\* The event loop lets request r take a step.
Scheduled(r) == inflight.running \in { NULL, Some(r) }

\* Request r is at position at; it keeps the loop unless it yields there.
Moved(r, at, key, t) ==
    [ running |-> IF Yields(at) THEN NULL ELSE Some(r),
      reqs |-> [ inflight.reqs EXCEPT ![r] = [ at |-> at, key |-> key, t |-> t ] ] ]

\* A request of client key arrives.
arrive(r, key) ==
    /\ Scheduled(r)
    /\ inflight.reqs[r].at \in { "idle", "allowed", "rejected" }
    /\ inflight' = Moved(r, "arrived", key, 0)
    /\ UNCHANGED <<now, requests, allowedAt, rejectedAt, limited>>

\* now = time.time(); self.requests[key] = [... if now - req_time < period]
evict(r) ==
    /\ Scheduled(r)
    /\ inflight.reqs[r].at = "arrived"
    /\ requests' = [requests EXCEPT ![inflight.reqs[r].key] = CleanOld(@)]
    /\ inflight' = Moved(r, "evicted", inflight.reqs[r].key, now)
    /\ UNCHANGED <<now, allowedAt, rejectedAt, limited>>

\* if len(self.requests[key]) >= self.calls: return False
test_limit(r) ==
    /\ Scheduled(r)
    /\ inflight.reqs[r].at = "evicted"
    /\ IF LimitReached(Len(requests[inflight.reqs[r].key]))
       THEN /\ inflight' = Moved(r, "rejected", inflight.reqs[r].key,
                                 inflight.reqs[r].t)
            /\ rejectedAt' = [rejectedAt EXCEPT ![inflight.reqs[r].key] =
                                  @ \cup {inflight.reqs[r].t}]
       ELSE /\ inflight' = Moved(r, "tested", inflight.reqs[r].key,
                                 inflight.reqs[r].t)
            /\ rejectedAt' = rejectedAt
    /\ UNCHANGED <<now, requests, allowedAt, limited>>

\* self.requests[key].append(now); return True
append(r) ==
    /\ Scheduled(r)
    /\ inflight.reqs[r].at = "tested"
    /\ requests' = [requests EXCEPT ![inflight.reqs[r].key] =
                        Append(@, inflight.reqs[r].t)]
    /\ allowedAt' = [allowedAt EXCEPT ![inflight.reqs[r].key] =
                        Append(@, inflight.reqs[r].t)]
    /\ inflight' = Moved(r, "allowed", inflight.reqs[r].key,
                         inflight.reqs[r].t)
    /\ UNCHANGED <<now, rejectedAt, limited>>

----------------------------------------------------------------------------
(* The JWKS key cache: JWKSManager, auth.py:29-124.                         *)

Kids == {"k1", "k2"}

\* A JWK: its key id and its public key material.
Jwk(kid, pub) == [ kid |-> kid, pub |-> pub ]

\* The "keys" arrays the issuer publishes: before and after it adds k2.
JwksDocuments ==
    { <<>>, <<Jwk("k1", "m1")>>, <<Jwk("k1", "m1"), Jwk("k2", "m2")>> }

\* What a GET of the JWKS endpoint can come to.
FailedResponses ==
    { "RequestError",       \* the transport fails
      "HTTPStatusError",    \* raise_for_status() on a 4xx or 5xx answer
      "JSONDecodeError",    \* the body is no JSON text
      "no keys",            \* a JSON object without a "keys" member
      "keys not a list",    \* a JSON object whose "keys" is no array
      "null" }              \* the JSON text null: no object at all
Responses ==
    { [ kind |-> "ok", keys |-> d ] : d \in JwksDocuments }
    \cup { [ kind |-> k, keys |-> <<>> ] : k \in FailedResponses }

\* The answers to the fetches of a key lookup: of the failures, one that
\* get_jwks catches and the one it does not.
LookupResponses ==
    { r \in Responses : r.kind \in { "ok", "RequestError", "null" } }

\* What the fetch of get_jwks raises on a response.  ("keys" not in None
\* is a TypeError, which none of the except clauses catches.)
FetchRaises(resp) ==
    CASE resp.kind = "ok" -> "none"
      [] resp.kind \in { "RequestError", "HTTPStatusError", "JSONDecodeError",
                         "no keys", "keys not a list" } -> "JWKSError"
      [] resp.kind = "null" -> "TypeError"

\* The cache answers: it is non-empty and younger than the TTL (a cache
\* whose age has reached the TTL no longer answers).
CacheValidThroughTtl(cache, ts) == cache # NULL /\ now - ts <= cache_ttl
CacheValid(cache, ts) == cache # NULL /\ now - ts < cache_ttl

\* get_jwks(force_refresh) on a cache <<cache, ts>>, the endpoint answering
\* resp: what it raises, the key set it returns, the cache it leaves, and
\* whether it fetched; failure is the kind of the response it failed on.
get_jwks(cache, ts, force_refresh, resp) ==
    IF ~force_refresh /\ CacheValid(cache, ts)
    THEN [ raises |-> "none", failure |-> NULL, jwks |-> cache,
           cache |-> cache, ts |-> ts, fetched |-> 0 ]
    ELSE IF FetchRaises(resp) = "none"
    THEN [ raises |-> "none", failure |-> NULL, jwks |-> Some(resp.keys),
           cache |-> Some(resp.keys), ts |-> now, fetched |-> 1 ]
    ELSE [ raises |-> FetchRaises(resp), failure |-> Some(resp.kind),
           jwks |-> NULL, cache |-> cache, ts |-> ts, fetched |-> 1 ]

\* for key in jwks["keys"]: if key.get("kid") == kid: return key
FindKey(keys, kid) ==
    LET hits == SelectSeq(keys, LAMBDA k : k.kid = kid)
    IN  IF hits = <<>> THEN NULL ELSE Some(Head(hits))

\* The force_refresh argument of the second get_jwks call, made when the
\* first key set holds no key of the kid.
RefreshWhenStale == FALSE
RefreshOnMiss == TRUE

\* The lookup of get_key_by_kid, a and b being what its first and its
\* second get_jwks call come to.
KeyLookup(a, b, kid) ==
    IF a.raises # "none"
    THEN [ raises |-> a.raises, failure |-> a.failure, key |-> NULL,
           cache |-> a.cache, ts |-> a.ts, seen |-> <<>>,
           fetches |-> a.fetched, forced |-> 0 ]
    ELSE IF FindKey(ValueOf(a.jwks), kid) # NULL
    THEN [ raises |-> "none", failure |-> NULL,
           key |-> FindKey(ValueOf(a.jwks), kid), cache |-> a.cache,
           ts |-> a.ts, seen |-> <<ValueOf(a.jwks)>>,
           fetches |-> a.fetched, forced |-> 0 ]
    ELSE IF b.raises # "none"
    THEN [ raises |-> b.raises, failure |-> b.failure, key |-> NULL,
           cache |-> b.cache, ts |-> b.ts, seen |-> <<ValueOf(a.jwks)>>,
           fetches |-> a.fetched + b.fetched,
           forced |-> IF RefreshOnMiss THEN 1 ELSE 0 ]
    ELSE [ raises |-> "none", failure |-> NULL,
           key |-> FindKey(ValueOf(b.jwks), kid), cache |-> b.cache,
           ts |-> b.ts, seen |-> <<ValueOf(a.jwks), ValueOf(b.jwks)>>,
           fetches |-> a.fetched + b.fetched,
           forced |-> IF RefreshOnMiss THEN 1 ELSE 0 ]

\* The second get_jwks call of get_key_by_kid, after the first came to a.
RefreshAfter(a, r2) == get_jwks(a.cache, a.ts, RefreshOnMiss, r2)

\* get_key_by_kid(kid), the endpoint answering r1 to the first fetch and r2
\* to the refresh: what it raises, the key it returns (NULL is None), the
\* cache it leaves, the key sets get_jwks returned to it, and how many
\* fetches and forced refreshes it made.
get_key_by_kid(cache, ts, kid, r1, r2) ==
    LET First(a) == KeyLookup(a, RefreshAfter(a, r2), kid)
    IN  First(get_jwks(cache, ts, FALSE, r1))

----------------------------------------------------------------------------
(* get_jwks called concurrently, auth.py:47-96.  The call reads the clock   *)
(* and tests the cache, then awaits the GET of the endpoint; when the       *)
(* answer is there it stores the key set with the time it read at its       *)
(* start.  Other calls run while it awaits.                                 *)

\* starts counts the fetches begun; stored_by is the start number of the
\* fetch whose key set the cache holds (0: none).
NoFetching ==
    [ calls |-> [ f \in InFlight |->
                    [ at |-> "idle", force |-> FALSE, now |-> 0, started |-> 0,
                      raises |-> "none", jwks |-> NULL ] ],
      starts |-> 0, stored_by |-> 0 ]

\* now = time.time(), the cache test, and the request sent.
get_jwks_begin(f, force_refresh) ==
    /\ fetching.calls[f].at = "idle"
    /\ IF ~force_refresh /\ CacheValid(keysCache, cacheTimestamp)
       THEN fetching' = [fetching EXCEPT !.calls[f] =
                [ @ EXCEPT !.at = "done", !.force = force_refresh, !.now = now,
                           !.jwks = keysCache ]]
       ELSE fetching' = [fetching EXCEPT
                !.starts = @ + 1,
                !.calls[f] = [ @ EXCEPT !.at = "fetching", !.force = force_refresh,
                                        !.now = now,
                                        !.started = fetching.starts + 1 ]]
    /\ UNCHANGED <<now, keysCache, cacheTimestamp, auth>>

\* The time a finished fetch stores with its key set.
StoredTimestamp(started_at, finished_at) == started_at

\* The answer of the endpoint is there: the key set is checked and stored.
get_jwks_end(f, resp) ==
    /\ fetching.calls[f].at = "fetching"
    /\ IF FetchRaises(resp) = "none"
       THEN /\ keysCache' = Some(resp.keys)
            /\ cacheTimestamp' = StoredTimestamp(fetching.calls[f].now, now)
            /\ fetching' = [fetching EXCEPT
                    !.stored_by = fetching.calls[f].started,
                    !.calls[f] = [ @ EXCEPT !.at = "done",
                                            !.jwks = Some(resp.keys) ]]
       ELSE /\ UNCHANGED <<keysCache, cacheTimestamp>>
            /\ fetching' = [fetching EXCEPT !.calls[f] =
                    [ @ EXCEPT !.at = "done", !.raises = FetchRaises(resp) ]]
    /\ UNCHANGED <<now, auth>>

\* The call has returned; its caller may call again.
get_jwks_returned(f) ==
    /\ fetching.calls[f].at = "done"
    /\ fetching.starts < MaxFetches
    /\ fetching' = [fetching EXCEPT !.calls[f] =
            [ NoFetching.calls[f] EXCEPT !.started = fetching.calls[f].started ]]
    /\ UNCHANGED <<now, keysCache, cacheTimestamp, auth>>

----------------------------------------------------------------------------
(* The token validator: EnhancedJWTValidator, auth.py:126-272, and          *)
(* validate_jwt_token, auth.py:291-324.                                     *)

\* The tenants that tokens and headers name.
AuthTenants == { <<"a", "c", "1">>, <<"A", "c", "1">> }

\* A token that validates for tenant claim t until it is too old: signed
\* by the issuer's key k1 with RS256, never expiring within the run.
\* tenant_id is NULL when the payload has no such claim, or a falsy one.
\* iat is a time after the epoch, so `if iat:` holds.
GoodToken(t) ==
    [ wellformed |-> TRUE, kid |-> Some("k1"), alg |-> "RS256",
      signed_with |-> "m1", exp |-> MaxTime, iat |-> 0,
      sub |-> Some("u1"), tenant_id |-> t ]

\* The tokens presented to the validator: the good ones, and one for
\* each way a token of the first tenant can be bad.
Tokens ==
    { GoodToken(t) : t \in {NULL} \cup { Some(x) : x \in AuthTenants } }
    \cup { [GoodToken(Some(<<"a", "c", "1">>)) EXCEPT !.wellformed = FALSE],
           [GoodToken(Some(<<"a", "c", "1">>)) EXCEPT !.kid = NULL],
           [GoodToken(Some(<<"a", "c", "1">>)) EXCEPT !.kid = Some("k2"),
                                                      !.signed_with = "m2"],
           [GoodToken(Some(<<"a", "c", "1">>)) EXCEPT !.alg = "HS256"],
           [GoodToken(Some(<<"a", "c", "1">>)) EXCEPT !.signed_with = "forged"],
           [GoodToken(Some(<<"a", "c", "1">>)) EXCEPT !.exp = 0],
           [GoodToken(Some(<<"a", "c", "1">>)) EXCEPT !.sub = NULL],
           [GoodToken(Some(<<"a", "c", "1">>)) EXCEPT !.sub = Some("")] }

RequiredTenants == {NULL} \cup { Some(x) : x \in AuthTenants }

\* algorithms=["RS256", "ES256"]
AllowedAlgorithms == { "RS256", "ES256" }

\* jwt.decode(token, public_key, ...): the JWTError it raises, as the
\* message validate_token makes of it, or <<>> when the token decodes.
DecodeFailure(token, key) ==
    CASE token.alg \notin AllowedAlgorithms ->
            <<"Token validation failed: ",
              "The specified alg value is not allowed">>
      [] token.alg \in AllowedAlgorithms /\ token.signed_with # key.pub ->
            <<"Token validation failed: ", "Signature verification failed.">>
      [] token.alg \in AllowedAlgorithms /\ token.signed_with = key.pub
         /\ token.exp < now ->
            <<"Token has expired">>
      [] OTHER -> <<>>

\* f"Tenant mismatch: expected {required_tenant_id}, got {token_tenant}"
GenericClaimsMessage(required, token_tenant) ==
    <<"Token claims invalid: ", "tenant_id">>
TenantMismatchMessage(required, token_tenant) ==
    <<"Tenant mismatch: expected ">> \o required \o <<", got ">>
        \o token_tenant

\* The tenant check of _validate_payload: its message, or <<>>.
TenantFailureWhenClaimed(required, token_tenant) ==
    IF required # NULL /\ token_tenant # NULL
       /\ ValueOf(token_tenant) # ValueOf(required)
    THEN TenantMismatchMessage(ValueOf(required), ValueOf(token_tenant))
    ELSE <<>>
TenantFailure(required, token_tenant) ==
    IF required = NULL THEN <<>>
    ELSE IF token_tenant = NULL THEN <<"Token missing tenant_id claim">>
    ELSE IF ValueOf(token_tenant) # ValueOf(required)
    THEN TenantMismatchMessage(ValueOf(required), ValueOf(token_tenant))
    ELSE <<>>

\* _validate_payload(payload, required_tenant_id, None): the message of
\* the JWTValidationError it raises, or <<>>.
PayloadFailure(token, required) ==
    IF token.sub = NULL THEN <<"Missing required claim: ", "sub">>
    ELSE IF ValueOf(token.sub) = "" THEN <<"Invalid subject claim">>
    ELSE IF TenantFailure(required, token.tenant_id) # <<>>
    THEN TenantFailure(required, token.tenant_id)
    ELSE IF now - token.iat > max_age THEN <<"Token is too old">>
    ELSE <<>>

\* The payload jwt.decode returns.
PayloadOf(token) ==
    [ sub |-> token.sub, tenant_id |-> token.tenant_id, exp |-> token.exp,
      iat |-> token.iat ]

\* What validate_token comes to when it raises JWTValidationError(message)
\* after a key lookup.
Fails(message, lookup) ==
    [ raises |-> "JWTValidationError", message |-> message,
      failure |-> lookup.failure, payload |-> NULL, key |-> lookup.key,
      cache |-> lookup.cache, ts |-> lookup.ts, fetches |-> lookup.fetches,
      forced |-> lookup.forced, seen |-> lookup.seen ]

\* The lookup that was not made.
NoLookup(cache, ts) ==
    [ key |-> NULL, failure |-> NULL, cache |-> cache, ts |-> ts,
      fetches |-> 0, forced |-> 0, seen |-> <<>> ]

\* validate_token once its key lookup came to k: the construction of the
\* key, jwt.decode and _validate_payload, each failure first become the
\* message of a JWTValidationError.
Verify(token, required, k, decoded, checked) ==
    IF k.raises = "JWKSError"
    THEN Fails(<<"Authentication service unavailable">>, k)
    ELSE IF k.raises # "none"
    THEN [ Fails(<<>>, k) EXCEPT !.raises = k.raises ]
    ELSE IF k.key = NULL
    THEN Fails(<<"Unknown key ID: ", ValueOf(token.kid)>>, k)
    ELSE IF decoded # <<>> THEN Fails(decoded, k)
    ELSE IF checked # <<>> THEN Fails(checked, k)
    ELSE [ Fails(<<>>, k) EXCEPT !.raises = "none",
                                 !.payload = Some(PayloadOf(token)) ]

\* validate_token(token, required_tenant_id): what it raises and with
\* which message, the payload it returns, and what its key lookup did.
validate_token(cache, ts, token, required, r1, r2) ==
    LET Found(k) ==
            Verify(token, required, k, DecodeFailure(token, ValueOf(k.key)),
                   PayloadFailure(token, required))
    IN  IF ~token.wellformed
        THEN Fails(<<"Token validation failed: ",
                     "Error decoding token headers.">>, NoLookup(cache, ts))
        ELSE IF token.kid = NULL
        THEN Fails(<<"Token missing key ID (kid)">>, NoLookup(cache, ts))
        ELSE Found(get_key_by_kid(cache, ts, ValueOf(token.kid), r1, r2))

\* validate_jwt_token(token, tenant_id): the status of the HTTPException
\* it raises (0 when it returns the payload) and the error code.
validate_jwt_token(cache, ts, token, tenant_id, r1, r2) ==
    LET Mapped(v) ==
        [ status |-> CASE v.raises = "none" -> 0
                       [] v.raises = "JWTValidationError" -> 401
                       [] OTHER -> 500,
          error_code |-> CASE v.raises = "none" -> ""
                           [] v.raises = "JWTValidationError" -> "INVALID_TOKEN"
                           [] OTHER -> "AUTH_SERVICE_ERROR",
          error_message |-> CASE v.raises = "none" -> <<>>
                              [] v.raises = "JWTValidationError" -> v.message
                              [] OTHER -> <<"Authentication service error">>,
          payload |-> v.payload, cache |-> v.cache, ts |-> v.ts ]
    IN  Mapped(validate_token(cache, ts, token, tenant_id, r1, r2))

----------------------------------------------------------------------------
(* Calls of the key cache and of the validator.                             *)

NoAuth ==
    [ op |-> "none", force |-> FALSE, kid |-> NULL, token |-> NULL,
      required |-> NULL, raises |-> "none", failure |-> NULL,
      message |-> <<>>, key |-> NULL, payload |-> NULL, seen |-> <<>>,
      fetches |-> 0, forced |-> 0 ]

call_get_jwks(force_refresh, resp) ==
    \E g \in { get_jwks(keysCache, cacheTimestamp, force_refresh, resp) } :
        /\ keysCache' = g.cache
        /\ cacheTimestamp' = g.ts
        /\ auth' = [ NoAuth EXCEPT
              !.op = "get_jwks", !.force = force_refresh,
              !.raises = g.raises,
              !.failure = g.failure,
              !.seen = IF g.raises = "none" THEN <<ValueOf(g.jwks)>>
                                            ELSE <<>>,
              !.fetches = g.fetched,
              !.forced = IF force_refresh THEN 1 ELSE 0 ]
        /\ UNCHANGED now

call_get_key_by_kid(kid, r1, r2) ==
    \E k \in { get_key_by_kid(keysCache, cacheTimestamp, kid, r1, r2) } :
        /\ keysCache' = k.cache
        /\ cacheTimestamp' = k.ts
        /\ auth' = [ NoAuth EXCEPT
              !.op = "get_key_by_kid", !.kid = Some(kid),
              !.raises = k.raises,
              !.failure = k.failure,
              !.key = k.key, !.seen = k.seen, !.fetches = k.fetches,
              !.forced = k.forced ]
        /\ UNCHANGED now

call_validate_token(token, required, r1, r2) ==
    \E v \in { validate_token(keysCache, cacheTimestamp, token, required,
                               r1, r2) } :
        /\ keysCache' = v.cache
        /\ cacheTimestamp' = v.ts
        /\ auth' = [ NoAuth EXCEPT
              !.op = "validate_token", !.kid = token.kid,
              !.token = Some(token), !.required = required,
              !.raises = v.raises,
              !.failure = v.failure,
              !.message = v.message, !.key = v.key, !.payload = v.payload,
              !.seen = v.seen, !.fetches = v.fetches, !.forced = v.forced ]
        /\ UNCHANGED now

----------------------------------------------------------------------------
(* The middleware chain: middleware.py, and the dependencies of the routes, *)
(* main.py:118-194.  The chain runs, outermost first: metrics, CORS,        *)
(* HeaderValidationMiddleware, JWTValidationMiddleware,                     *)
(* RequestLoggingMiddleware, SecurityHeadersMiddleware, then the route with *)
(* its dependencies get_current_user and rate_limit_check (main.py:266-310: *)
(* the middleware added last is the outermost).                             *)

\* self.exempt_paths, of both validating middlewares; with no exempt path
\* they would validate every request.
NoExemptPaths == {}
exempt_paths == { "/healthz", "/metrics", "/docs", "/redoc", "/openapi.json",
                  "/" }

\* tenant_id.lower()
Lower(s) == [ i \in 1..Len(s) |-> FoldChar(s[i]) ]

\* pattern in tenant_lower
Contains(s, pattern) ==
    \E i \in 1..Len(s) :
        /\ i + Len(pattern) - 1 <= Len(s)
        /\ SubSeq(s, i, i + Len(pattern) - 1) = pattern

invalid_patterns ==
    { <<".", ".">>, <<"/", "/">>, <<"\\", "\\">>,
      <<"a", "d", "m", "i", "n">>, <<"s", "y", "s", "t", "e", "m">>,
      <<"r", "o", "o", "t">> }

\* _is_valid_tenant_id(tenant_id)
is_valid_tenant_id(tenant_id) ==
    /\ ~(tenant_id = <<>> \/ Len(tenant_id) < 3 \/ Len(tenant_id) > 64)
    /\ \A i \in 1..Len(tenant_id) :
          IsAlnumChar(tenant_id[i]) \/ tenant_id[i] \in {"-", "_"}
    /\ ~\E pattern \in invalid_patterns : Contains(Lower(tenant_id), pattern)

\* The X-Request-ID values: one that _is_valid_request_id accepts and one,
\* holding a blank, that it does not.
RequestIds == { "req-0001", "req 0001" }
is_valid_request_id(request_id) == request_id = "req-0001"

auto_generate_request_id == TRUE    \* the default of the settings
require_request_id == TRUE          \* the default of the settings

\* An HTTPException of a stage, or its passing (status 0).
Raise(status, error_code) == [ status |-> status, error_code |-> error_code ]
Pass == Raise(0, "")

\* _validate_tenant_id(request)
validate_tenant_id(tenant_header) ==
    IF require_tenant_id /\ tenant_header \in { NULL, Some(<<>>) }
    THEN Raise(400, "MISSING_TENANT_ID")
    ELSE IF tenant_header \notin { NULL, Some(<<>>) }
            /\ ~is_valid_tenant_id(ValueOf(tenant_header))
    THEN Raise(400, "INVALID_TENANT_ID")
    ELSE Pass

\* _validate_request_id(request)
validate_request_id(request_id) ==
    IF request_id = NULL
    THEN IF auto_generate_request_id THEN Pass
         ELSE IF require_request_id THEN Raise(400, "MISSING_REQUEST_ID")
         ELSE Pass
    ELSE IF ~is_valid_request_id(ValueOf(request_id))
    THEN Raise(400, "INVALID_REQUEST_ID")
    ELSE Pass

\* HeaderValidationMiddleware.dispatch up to call_next: the tenant id, then
\* the request id.
HeaderValidation(req) ==
    IF validate_tenant_id(req.tenant_header).status # 0
    THEN validate_tenant_id(req.tenant_header)
    ELSE validate_request_id(req.request_id)

\* request.state.tenant_id = tenant_id
StateTenantForgotten(tenant_header) == NULL
StateTenant(tenant_header) == tenant_header

\* What a validation of the request's token comes to: the exception, the
\* payload, the cache it leaves, and the tenant ids validate_jwt_token was
\* called with so far.
Validated(raised, v, required) ==
    [ status |-> raised.status, error_code |-> raised.error_code,
      payload |-> v.payload, cache |-> v.cache, ts |-> v.ts,
      required |-> required ]
NotValidated(raised, cache, ts) ==
    [ status |-> raised.status, error_code |-> raised.error_code,
      payload |-> NULL, cache |-> cache, ts |-> ts, required |-> <<>> ]

\* The additional check of the middleware after the validation.
ConsistencyCheck(tenant_id, v) ==
    IF /\ tenant_id \notin { NULL, Some(<<>>) }
       /\ ValueOf(v.payload).tenant_id # NULL
       /\ ValueOf(v.payload).tenant_id # tenant_id
    THEN Raise(403, "TENANT_MISMATCH")
    ELSE Pass

\* JWTValidationMiddleware.dispatch up to call_next, the issuer answering
\* resp to every fetch.
JWTValidation(req, tenant_id, cache, ts, resp) ==
    LET After(v) ==
            IF v.status # 0
            THEN Validated(Raise(v.status, v.error_code), v, <<tenant_id>>)
            ELSE Validated(ConsistencyCheck(tenant_id, v), v, <<tenant_id>>)
    IN  IF req.authorization = NULL
        THEN NotValidated(Raise(401, "MISSING_AUTHORIZATION"), cache, ts)
        ELSE IF ValueOf(req.authorization).scheme # "bearer"
                \/ ValueOf(req.authorization).token = NULL
        THEN NotValidated(Raise(401, "INVALID_AUTHORIZATION"), cache, ts)
        ELSE After(validate_jwt_token(cache, ts,
                       ValueOf(ValueOf(req.authorization).token),
                       tenant_id, resp, resp))

\* get_current_user(credentials, request) after the middleware came to j;
\* its credentials are those of HTTPBearer, which answers 403 to a request
\* without a bearer token.
get_current_user(req, tenant_id, j, resp) ==
    LET After(v) ==
            Validated(Raise(v.status, v.error_code), v,
                      Append(j.required, tenant_id))
    IN  IF req.authorization = NULL
        THEN [j EXCEPT !.status = 403, !.error_code = "Not authenticated"]
        ELSE IF ValueOf(req.authorization).scheme # "bearer"
                \/ ValueOf(req.authorization).token = NULL
        THEN [j EXCEPT !.status = 403, !.error_code = "Not authenticated"]
        ELSE After(validate_jwt_token(j.cache, j.ts,
                       ValueOf(ValueOf(req.authorization).token),
                       tenant_id, resp, resp))

\* The requests: one that passes for the first tenant, and the ones that
\* differ from it in one header, or in the header's and the token's tenant.
GoodRequest ==
    [ path |-> "/context", tenant_header |-> Some(<<"a", "c", "1">>),
      request_id |-> NULL,
      authorization |->
          Some([ scheme |-> "bearer",
                 token |-> Some(GoodToken(Some(<<"a", "c", "1">>))) ]),
      client |-> "ip1" ]

Bearer(token) == Some([ scheme |-> "bearer", token |-> Some(token) ])

HttpRequests ==
    { [GoodRequest EXCEPT !.tenant_header = h, !.authorization = Bearer(t)] :
        h \in { NULL, Some(<<"a", "c", "1">>), Some(<<"A", "c", "1">>) },
        t \in { GoodToken(c) :
                  c \in {NULL} \cup { Some(x) : x \in AuthTenants } } }
    \cup { [GoodRequest EXCEPT !.path = "/healthz", !.authorization = NULL],
           [GoodRequest EXCEPT !.tenant_header = Some(<<"a", "c">>)],
           [GoodRequest EXCEPT !.tenant_header = Some(<<"r", "o", "o", "t">>)],
           [GoodRequest EXCEPT !.tenant_header = Some(<<"a", "@", "1">>)],
           [GoodRequest EXCEPT !.request_id = Some("req-0001")],
           [GoodRequest EXCEPT !.request_id = Some("req 0001")],
           [GoodRequest EXCEPT !.authorization = NULL],
           [GoodRequest EXCEPT !.authorization =
                Some([ scheme |-> "basic", token |-> Some(GoodToken(NULL)) ])],
           [GoodRequest EXCEPT !.authorization =
                Some([ scheme |-> "bearer", token |-> NULL ])],
           [GoodRequest EXCEPT !.authorization =
                Bearer([GoodToken(Some(<<"a", "c", "1">>)) EXCEPT
                            !.signed_with = "forged"])],
           [GoodRequest EXCEPT !.authorization =
                Bearer([GoodToken(Some(<<"a", "c", "1">>)) EXCEPT
                            !.exp = 0])] }

\* The issuer's answers while requests are served.
HttpResponses ==
    { r \in LookupResponses : r.keys \in { <<>>, <<Jwk("k1", "m1")>> } }

\* The middlewares of the application in the order main.py adds them: the
\* five app.add_middleware calls, then the @app.middleware("http") function.
Registered ==
    << "SecurityHeadersMiddleware", "RequestLoggingMiddleware",
       "JWTValidationMiddleware", "HeaderValidationMiddleware",
       "CORSMiddleware", "metrics_middleware" >>

\* add_middleware puts a middleware in front of the ones added before it:
\* the one added last is the first to see a request.
FirstAddedOutermost(added) == added
LastAddedOutermost(added) ==
    [ i \in 1..Len(added) |-> added[Len(added) + 1 - i] ]

\* The middlewares as a request passes them, the outermost first.
MiddlewareStack == LastAddedOutermost(Registered)

\* The dependencies of a route, in the order of the handler's parameters:
\* the context routes declare both, /healthz, /metrics and / none.
Dependencies(path) ==
    IF path \in { "/healthz", "/metrics", "/" }
    THEN <<>>
    ELSE << "get_current_user", "rate_limit_check" >>

\* JWTValidationMiddleware is added with enable_validation=True.
enable_validation == TRUE

\* A request on its way: the stages it entered, the HTTPExceptions raised
\* for it, request.state.tenant_id, and the validations of its token.
Arrived(cache, ts) ==
    [ ran |-> <<>>, raised |-> <<>>, tenant_id |-> NULL,
      v |-> NotValidated(Pass, cache, ts) ]

Entered(c, stage) == [c EXCEPT !.ran = Append(@, stage)]

\* raise HTTPException(...) in a stage.
Raising(c, stage, raised) ==
    [c EXCEPT !.raised = Append(@, [ stage |-> stage,
                                      status |-> raised.status,
                                      error_code |-> raised.error_code ])]

\* A stage that raised does not call the next one.
NeverRejected(c) == FALSE
Rejected(c) == c.raised # <<>>

\* HeaderValidationMiddleware.dispatch: it raises, or stores the tenant id
\* in the request's state and calls the next stage.
HeaderValidated(req, c, h) ==
    IF h.status # 0
    THEN Raising(c, "HeaderValidationMiddleware", h)
    ELSE [c EXCEPT !.tenant_id = StateTenant(req.tenant_header)]

\* JWTValidationMiddleware.dispatch: it raises, or calls the next stage.
TokenValidated(c, j) ==
    IF j.status # 0
    THEN Raising([c EXCEPT !.v = j], "JWTValidationMiddleware", j)
    ELSE [c EXCEPT !.v = j]

\* The dispatch of one middleware up to its call_next; the middlewares that
\* validate skip the exempt paths, the others only pass the request on.
Middleware(name, req, c, resp) ==
    IF name = "HeaderValidationMiddleware" /\ req.path \notin exempt_paths
    THEN HeaderValidated(req, Entered(c, name), HeaderValidation(req))
    ELSE IF /\ name = "JWTValidationMiddleware"
            /\ enable_validation
            /\ req.path \notin exempt_paths
    THEN TokenValidated(Entered(c, name),
                        JWTValidation(req, c.tenant_id, c.v.cache, c.v.ts,
                                      resp))
    ELSE Entered(c, name)

\* The request through the middlewares of a stack, up to the router.
RECURSIVE Through(_, _, _, _)
Through(stack, req, c, resp) ==
    IF stack = <<>> \/ Rejected(c)
    THEN c
    ELSE Through(Tail(stack), req, Middleware(Head(stack), req, c, resp),
                 resp)

\* Depends(get_current_user) of the route.
UserResolved(c, u) ==
    IF u.status # 0
    THEN Raising([c EXCEPT !.v = u], "get_current_user", u)
    ELSE [c EXCEPT !.v = u]

CurrentUser(req, c, resp) ==
    IF Rejected(c) \/ Dependencies(req.path) = <<>>
    THEN c
    ELSE UserResolved(Entered(c, "get_current_user"),
                      get_current_user(req, c.tenant_id, c.v, resp))

\* Depends(rate_limit_check) of the route, the limiter having answered.
RateChecked(c, allowed) ==
    IF allowed
    THEN Entered(c, "rate_limit_check")
    ELSE Raising(Entered(c, "rate_limit_check"), "rate_limit_check",
                 Raise(429, ""))

\* The body of the route's handler.
Handler(c) == IF Rejected(c) THEN c ELSE Entered(c, "handler")

\* SecurityHeadersMiddleware.dispatch sets its headers on the response its
\* call_next returns: the one of the handler, or the one made of an
\* HTTPException of a dependency; an HTTPException raised in a middleware
\* is no response of a call_next.
SecurityHeaders(c) ==
    /\ \E i \in 1..Len(c.ran) : c.ran[i] = "SecurityHeadersMiddleware"
    /\ \A i \in 1..Len(c.raised) :
          \A k \in 1..Len(Registered) : c.raised[i].stage # Registered[k]

NoRequest ==
    [ request |-> GoodRequest, stage |-> "none", status |-> 0,
      error_code |-> "", tenant_id |-> NULL, required |-> <<>>,
      payload |-> NULL, ran |-> <<>>, raised |-> <<>>,
      security_headers |-> FALSE ]

\* The request ended: at the stage that raised, with the status of its
\* HTTPException, or with 200 in the route's handler.
Ended(req, c) ==
    [ request |-> req,
      stage |-> c.ran[Len(c.ran)],
      status |-> IF c.raised # <<>> THEN c.raised[1].status ELSE 200,
      error_code |-> IF c.raised # <<>> THEN c.raised[1].error_code ELSE "",
      tenant_id |-> c.tenant_id,
      required |-> c.v.required, payload |-> c.v.payload,
      ran |-> c.ran, raised |-> c.raised,
      security_headers |-> SecurityHeaders(c) ]

\* One request through the chain: the middlewares, the dependencies of the
\* route, the route's handler.
handle_request(req, resp) ==
    /\ UNCHANGED <<now, require_tenant_id, tenant_format>>
    /\ \E c \in { CurrentUser(req,
                              Through(MiddlewareStack, req,
                                      Arrived(keysCache, cacheTimestamp),
                                      resp),
                              resp) } :
          /\ keysCache' = c.v.cache
          /\ cacheTimestamp' = c.v.ts
          /\ IF Rejected(c) \/ Dependencies(req.path) = <<>>
             THEN /\ http' = Ended(req, Handler(c))
                  /\ UNCHANGED rateVars
             ELSE /\ rate_limit_check(req.client)
                  /\ http' = Ended(req, Handler(RateChecked(c,
                                                   limited'.allowed)))

----------------------------------------------------------------------------
(* The summarization pipeline: SummarizationPipeline,                       *)
(* text-summarization/pipeline.py.  Scores and thresholds are counted in    *)
(* hundredths: 80 is the score 0.80.                                        *)

\* SummarizationRequest (models.py): ai_model, semantic_threshold in
\* [0.6, 0.95], retry_attempts in 1..5.  The validator of ai_model runs when
\* the request is built; a later assignment is not validated, so an unknown
\* identifier can reach the pipeline.
KnownModels == {"openai", "huggingface", "local"}
AiModels == KnownModels \cup {"unknown_model"}
SemanticThresholds == {80}
SummarizationRequests ==
    [ ai_model : AiModels, semantic_threshold : SemanticThresholds,
      retry_attempts : 1..MaxRetries ]

\* What sentence_transformer.encode and the cosine of its two embeddings
\* give: a number, nan (an embedding of norm zero), or an exception.
Sim(n) == [ kind |-> "number", value |-> n ]
NaN == [ kind |-> "nan", value |-> 0 ]
EncodeRaises == [ kind |-> "raises", value |-> 0 ]
NoSimilarity == [ kind |-> "none", value |-> 0 ]
Similarities == {EncodeRaises, NaN} \cup { Sim(n) : n \in {-20, 70, 75, 92, 130} }

\* min(1.0, x) and max(0.0, y) of Python: the second argument is returned
\* only when it compares strictly below (above) the first; every comparison
\* with nan is false.
MinWithOne(x) == IF x.kind = "number" /\ x.value < 100 THEN x.value ELSE 100
MaxWithZero(y) == IF y > 0 THEN y ELSE 0
Unclamped(x) == x.value
Clamp(x) == MaxWithZero(MinWithOne(x))

\* _calculate_semantic_similarity: any exception, the missing transformer
\* included, is answered by the default score.
DefaultScore == 50
calculate_semantic_similarity(sentence_transformer, x) ==
    IF ~sentence_transformer \/ x.kind = "raises"
    THEN DefaultScore
    ELSE Clamp(x)

\* What a backend does when it is invoked: it gives a summary (whose
\* similarity to the text is drawn with it), fails, or times out.
BackendOutcomes ==
    { [ kind |-> k, similarity |-> NoSimilarity ] : k \in {"error", "timeout"} }
    \cup { [ kind |-> "summary", similarity |-> x ] : x \in Similarities }

\* _generate_openai, _generate_huggingface, _generate_local: every
\* exception of the backend, a timeout included, leaves as a ModelError.
BackendRaises(out) == out.kind \in {"error", "timeout"}

\* _generate_with_model: dispatch on the identifier; an unknown identifier
\* is a ModelError and no backend is invoked.
generate_with_model(model_type, out) ==
    IF model_type \in KnownModels
    THEN [ raises |-> BackendRaises(out), invoked |-> TRUE,
           failure |-> IF BackendRaises(out) THEN out.kind ELSE "" ]
    ELSE [ raises |-> TRUE, invoked |-> FALSE,
           failure |-> "Unknown model type" ]

\* The text a backend call returns is named by the call.
NoText == [ by |-> "", attempt |-> 0 ]
Text(model_type, n) == [ by |-> model_type, attempt |-> n ]

\* The warnings of generate_summary.
BelowThreshold(attempts) == [ kind |-> "below threshold", attempt |-> attempts ]
FallbackUsed == [ kind |-> "Fallback to local model", attempt |-> 0 ]
FallbackFailed == [ kind |-> "Local model fallback failed", attempt |-> 0 ]

NoResponse ==
    [ refined_text |-> NoText, semantic_score |-> 0, model_used |-> "",
      retry_count |-> 0, status |-> "", warnings |-> <<>> ]
NoError == [ type |-> "", attempts |-> 0, best_score |-> 0 ]

\* One call of _generate_with_model, as the log of the request keeps it.
Failed(model_type, g) ==
    [ model_type |-> model_type, invoked |-> g.invoked, raised |-> TRUE,
      failure |-> g.failure, text |-> NoText, similarity |-> NoSimilarity,
      score |-> 0 ]
Scored(model_type, text, x, score) ==
    [ model_type |-> model_type, invoked |-> TRUE, raised |-> FALSE,
      failure |-> "", text |-> text, similarity |-> x, score |-> score ]

NoPipeline ==
    [ pc |-> "idle",
      request |-> [ ai_model |-> "local", semantic_threshold |-> 80,
                    retry_attempts |-> 1 ],
      sentence_transformer |-> TRUE,
      attempts |-> 0, best_summary |-> NoText, best_score |-> 0,
      model_used |-> "", warnings |-> <<>>, calls |-> <<>>,
      response |-> NoResponse, error |-> NoError ]

\* "if semantic_score > best_score": the best result so far.
TrackFirst(p, text, score) ==
    IF p.best_summary = NoText
    THEN [ p EXCEPT !.best_summary = text, !.best_score = score ]
    ELSE p
TrackBest(p, text, score) ==
    IF score > p.best_score
    THEN [ p EXCEPT !.best_summary = text, !.best_score = score ]
    ELSE p

\* After the loop: the check of the final result and the response.
Finish(p) ==
    IF p.best_score < p.request.semantic_threshold
    THEN [ p EXCEPT !.pc = "raised",
             !.error = [ type |-> "SemanticThresholdError",
                         attempts |-> p.attempts,
                         best_score |-> p.best_score ] ]
    ELSE [ p EXCEPT !.pc = "returned",
             !.response =
                [ refined_text |-> p.best_summary,
                  semantic_score |-> p.best_score,
                  model_used |-> p.model_used,
                  retry_count |-> p.attempts - 1,
                  status |-> IF p.warnings = <<>> THEN "success"
                             ELSE "partial_success",
                  warnings |-> p.warnings ] ]

\* The bare "raise" that ends the last pass of the loop stands outside
\* every except block, and generate_summary is not awaited from one
\* (main.py:374-376): no exception is active, which is a RuntimeError.
\* The outer handler of generate_summary re-raises it.
Reraise == "RuntimeError"

\* The end of one pass of the loop: the bare raise on the last attempt,
\* else the loop's condition.  A loop that did not test its condition
\* would go on for ever.
LoopAgain(p) == [ p EXCEPT !.pc = "primary" ]
EndOfPass(p) ==
    IF p.attempts >= p.request.retry_attempts
    THEN [ p EXCEPT !.pc = "raised",
             !.error = [ type |-> Reraise, attempts |-> p.attempts,
                         best_score |-> p.best_score ] ]
    ELSE IF p.attempts < p.request.retry_attempts
    THEN [ p EXCEPT !.pc = "primary" ]
    ELSE Finish(p)

\* "if request.ai_model != 'local' and attempts == 1": the local fallback
\* is tried on the first pass whenever that pass did not break out of the
\* loop, whether the requested backend raised or scored below the threshold.
\* Without its first conjunct a request for the local backend would fall
\* back to the local backend.
AnyFirstPass(p) == p.attempts = 1
FallbackDue(p) == p.request.ai_model # "local" /\ p.attempts = 1

\* What follows the try statement of a pass that did not break.
AfterPass(p) ==
    IF FallbackDue(p) THEN [ p EXCEPT !.pc = "fallback" ] ELSE EndOfPass(p)

Logged(p, call) == [ p EXCEPT !.calls = Append(@, call) ]

\* "if attempts < request.retry_attempts: warnings.append(...)"
WarnBelow(p) ==
    IF p.attempts < p.request.retry_attempts
    THEN [ p EXCEPT !.warnings = Append(@, BelowThreshold(p.attempts)) ]
    ELSE p

\* The requested backend's answer to one attempt.  A ModelError is logged
\* and swallowed; a score at or above the threshold breaks out of the loop.
Attempted(p, g, text, x, score) ==
    IF g.raises
    THEN AfterPass(Logged(p, Failed(p.request.ai_model, g)))
    ELSE IF score >= p.request.semantic_threshold
    THEN Finish(TrackBest(
            Logged(p, Scored(p.request.ai_model, text, x, score)),
            text, score))
    ELSE AfterPass(WarnBelow(TrackBest(
            Logged(p, Scored(p.request.ai_model, text, x, score)),
            text, score)))

\* The fallback's answer.  model_used and the warning are set as soon as
\* the local backend has given a summary, whatever its score.
UsedLocalUnmarked(p, call) == Logged(p, call)
UsedLocal(p, call) ==
    [ Logged(p, call) EXCEPT !.model_used = "local",
                             !.warnings = Append(@, FallbackUsed) ]

FellBack(p, g, text, x, score) ==
    IF g.raises
    THEN EndOfPass([ Logged(p, Failed("local", g)) EXCEPT
                       !.warnings = Append(@, FallbackFailed) ])
    ELSE IF score >= p.request.semantic_threshold
    THEN Finish(TrackBest(UsedLocal(p, Scored("local", text, x, score)),
                          text, score))
    ELSE EndOfPass(TrackBest(UsedLocal(p, Scored("local", text, x, score)),
                             text, score))

\* generate_summary is entered: its locals, then the loop's condition.
generate_summary(request, sentence_transformer) ==
    /\ pipeline.pc \in {"idle", "returned", "raised"}
    /\ pipeline' =
          IF 0 < request.retry_attempts
          THEN [ NoPipeline EXCEPT !.pc = "primary", !.request = request,
                   !.sentence_transformer = sentence_transformer,
                   !.model_used = request.ai_model ]
          ELSE Finish([ NoPipeline EXCEPT !.request = request,
                   !.sentence_transformer = sentence_transformer,
                   !.model_used = request.ai_model ])

\* One pass of the retry loop up to its next await: the requested backend
\* answers attempt number attempts + 1.
primary_attempt(out) ==
    /\ pipeline.pc = "primary"
    /\ \E p \in { [ pipeline EXCEPT !.attempts = @ + 1 ] } :
       \E g \in { generate_with_model(p.request.ai_model, out) } :
       \E s \in { calculate_semantic_similarity(p.sentence_transformer,
                                                out.similarity) } :
          pipeline' = Attempted(p, g, Text(p.request.ai_model, p.attempts),
                                out.similarity, s)

\* The local backend answers the fallback of the first pass.
local_fallback(out) ==
    /\ pipeline.pc = "fallback"
    /\ \E g \in { generate_with_model("local", out) } :
       \E s \in { calculate_semantic_similarity(
                     pipeline.sentence_transformer, out.similarity) } :
          pipeline' = FellBack(pipeline, g, Text("local", 0),
                               out.similarity, s)

----------------------------------------------------------------------------
(* The two format checks a tenant id passes on its way: the middleware's    *)
(* _is_valid_tenant_id (middleware.py:201-225) on the X-Tenant-ID header,    *)
(* and set_search_path (repository.py:28-38) in the gateway.                 *)

\* The characters of the X-Tenant-ID values put to the checks.
TenantChars == { "a", "A", "1", "-", "_", "@" }

RECURSIVE TenantIdsOfLen(_)
TenantIdsOfLen(n) ==
    IF n = 0 THEN { <<>> }
    ELSE { Append(t, c) : t \in TenantIdsOfLen(n - 1), c \in TenantChars }

TenantIds == UNION { TenantIdsOfLen(n) : n \in 0..MaxTenantLen }

NoTenantFormat ==
    [ tenant |-> <<>>, middleware |-> FALSE, gateway |-> FALSE,
      switched |-> FALSE ]

\* A tenant id is put to the middleware's check, to the re-validation of
\* set_search_path, and to the SET search_path statement built from it.
check_tenant_format(t) ==
    /\ tenant_format' =
          [ tenant |-> t,
            middleware |-> is_valid_tenant_id(t),
            gateway |-> IsValidTenantCharset(t),
            switched |-> GetConnection(t, TRUE).ok ]
    /\ UNCHANGED <<now, require_tenant_id, http>>

----------------------------------------------------------------------------
(* The gateway's specification.                                             *)

\* The tables when the service starts.  A statement touches the one table
\* its connection resolves, so rows are placed in one namespace at a time.
StartDatabases ==
    { f \in [Namespaces -> UNION { StartTables(ns) : ns \in Namespaces }] :
        /\ \A ns \in Namespaces : f[ns] \in StartTables(ns)
        /\ \A m, n \in Namespaces :
              f[m] # EmptyTable /\ f[n] # EmptyTable => m = n }

RateInit ==
    /\ requests = [ k \in ClientKeys |-> <<>> ]
    /\ allowedAt = [ k \in ClientKeys |-> <<>> ]
    /\ rejectedAt = [ k \in ClientKeys |-> {} ]
    /\ limited = [ key |-> "none", allowed |-> TRUE, status |-> 200 ]
    /\ inflight = NoneInFlight

AuthInit ==
    /\ keysCache = NULL
    /\ cacheTimestamp = 0
    /\ auth = NoAuth
    /\ fetching = NoFetching

HttpInit ==
    /\ require_tenant_id = TRUE
    /\ http = NoRequest
    /\ tenant_format = NoTenantFormat

Init ==
    /\ now = 0
    /\ RateInit
    /\ AuthInit
    /\ HttpInit
    /\ db \in StartDatabases
    /\ last = NoCall
    /\ connection = NoConnection
    /\ puts = NoPuts
    /\ pipeline = NoPipeline

\* The service at its start, no context stored.
IdleInit ==
    /\ now = 0
    /\ RateInit
    /\ AuthInit
    /\ HttpInit
    /\ db = [ ns \in Namespaces |-> EmptyTable ]
    /\ last = NoCall
    /\ connection = NoConnection
    /\ puts = NoPuts
    /\ pipeline = NoPipeline

otherVars == <<rateVars, authVars, httpVars, pipeline>>

Next ==
    \/ \E t \in TenantInputs, req \in CreateRequests, id \in ContextIds,
          connects \in BOOLEAN :
          create_context(t, req, id, connects) /\ UNCHANGED <<puts, otherVars>>
    \/ \E t \in TenantInputs, id \in ContextIds, connects \in BOOLEAN :
          get_context(t, id, connects) /\ UNCHANGED <<puts, otherVars>>
    \/ \E t \in TenantInputs, id \in ContextIds, upd \in UpdateInputs,
          connects \in BOOLEAN :
          update_context(t, id, upd, connects) /\ UNCHANGED <<puts, otherVars>>
    \/ \E t \in TenantInputs, id \in ContextIds, connects \in BOOLEAN :
          delete_context(t, id, connects) /\ UNCHANGED <<puts, otherVars>>
    \/ \E t \in TenantInputs, ty \in ListFilters, lim \in ListLimits,
          off \in ListOffsets, connects \in BOOLEAN :
          list_contexts(t, ty, NULL, lim, off, connects)
          /\ UNCHANGED <<puts, otherVars>>
    \/ \E t \in TenantInputs, connects \in BOOLEAN :
          cleanup_expired_contexts(t, connects) /\ UNCHANGED <<puts, otherVars>>
    \/ Tick /\ UNCHANGED <<gwVars, otherVars>>

Spec == Init /\ [][Next]_vars

\* The gateway under concurrent PUT handlers, soft deletes and reaps.
PutNext ==
    \/ \E p \in InFlight, t \in PutTenants, id \in ContextIds, upd \in UpdateInputs :
          put_received(p, t, id, upd) /\ UNCHANGED otherVars
    \/ \E p \in InFlight : put_update(p) /\ UNCHANGED otherVars
    \/ \E p \in InFlight : put_updated(p) /\ UNCHANGED otherVars
    \/ \E p \in InFlight : put_read_back(p) /\ UNCHANGED otherVars
    \/ \E t \in PutTenants, id \in ContextIds :
          delete_context(t, id, TRUE) /\ UNCHANGED <<puts, otherVars>>
    \/ \E t \in PutTenants :
          cleanup_expired_contexts(t, TRUE) /\ UNCHANGED <<puts, otherVars>>
    \/ Tick /\ UNCHANGED <<gwVars, otherVars>>

SpecPut == Init /\ [][PutNext]_vars

----------------------------------------------------------------------------
(* Properties of the gateway.                                               *)

\* The namespace the last call's connection resolved.
LastNamespace == GetConnection(last.tenant, last.connects).namespace
LastConnected == GetConnection(last.tenant, last.connects).ok

\* A step that is a gateway call of the given kind.  (A call that changes
\* nothing and returns what the previous call returned is a stuttering step.)
SameReturn ==
    /\ last'.op = last.op /\ last'.tenant = last.tenant
    /\ last'.connects = last.connects /\ last'.status = last.status
    /\ last'.id = last.id /\ last'.arg = last.arg /\ last'.value = last.value
CallStep(op) == last'.op = op /\ (~SameReturn \/ db' # db)

\* C1: tenant isolation.  A read invoked with tenant B never returns a record
\* stored under another tenant A: get_context(B, id) returns absent or a
\* record of B, and list_contexts(B) returns records of B only.
C1_TenantIsolation ==
    /\ (last.op = "get_context" /\ last.status = "ok" /\ last.value # NULL)
          => ValueOf(last.value).tenant_id = last.tenant
    /\ (last.op = "list_contexts" /\ last.status = "ok")
          => \A k \in DOMAIN last.value : last.value[k].tenant_id = last.tenant

\* C4: round trip.  After create_context for a valid tenant over a working
\* connection, with an unused id, get_context of the returned id under the
\* same tenant returns a record whose payload is the created payload and
\* whose version is 1.
C4_CreateThenGetRoundTrip ==
    (/\ last.op = "create_context"
     /\ LastConnected
     /\ ~(last.status # "ok" /\ Exists(LastNamespace, last.id)))
    => /\ last.status = "ok"
       /\ Exists(LastNamespace, last.value)
       /\ Visible(db[LastNamespace][last.value])
       /\ AsContextDict(db[LastNamespace][last.value]).context_data
            = last.arg.context_data
       /\ db[LastNamespace][last.value].version = 1

\* C5: every successful update_context on a visible record increases its
\* version by exactly 1, whatever fields are supplied (none included); an
\* update that returns not-found (or fails) changes no version.
C5_UpdateIncrementsVersionByOne ==
    [][ CallStep("update_context") =>
          LET c == GetConnection(last'.tenant, last'.connects)
              target == c.ok /\ Exists(c.namespace, last'.id)
                             /\ Visible(db[c.namespace][last'.id])
          IN  IF target
              THEN /\ last'.status = "ok" /\ last'.value = TRUE
                   /\ db'[c.namespace][last'.id].version
                        = db[c.namespace][last'.id].version + 1
                   /\ \A ns \in Namespaces : \A i \in DOMAIN db[ns] :
                        (ns # c.namespace \/ i # last'.id) => db'[ns][i] = db[ns][i]
              ELSE /\ last'.status = "ok" => last'.value = FALSE
                   /\ db' = db ]_vars

C5_Witness ==
    /\ last.op = "update_context" /\ last.status = "ok" /\ last.value = TRUE
    /\ last.arg = NoUpdate
    /\ db[LastNamespace][last.id].version = 2

\* C6: delete_context on a visible record returns true and leaves the record
\* expired; delete_context on a record that is already expired (or absent)
\* returns false, raises nothing and changes nothing.
C6_SoftDeleteIdempotent ==
    [][ CallStep("delete_context") /\ GetConnection(last'.tenant, last'.connects).ok =>
          LET ns == GetConnection(last'.tenant, last'.connects).namespace
          IN  IF Exists(ns, last'.id) /\ Visible(db[ns][last'.id])
              THEN /\ last'.status = "ok" /\ last'.value = TRUE
                   /\ Expired(db'[ns][last'.id])
                   /\ ~Visible(db'[ns][last'.id])
              ELSE /\ last'.status = "ok" /\ last'.value = FALSE
                   /\ db' = db ]_vars

\* A second delete: the row was soft-deleted (delete alone leaves a row with
\* expires_at = updated_at at version 1) and the last delete found nothing.
C6_Witness ==
    /\ last.op = "delete_context" /\ last.status = "ok" /\ last.value = FALSE
    /\ LastConnected /\ Exists(LastNamespace, last.id)
    /\ db[LastNamespace][last.id].expires_at
         = Some(db[LastNamespace][last.id].updated_at)
    /\ db[LastNamespace][last.id].version = 1

\* C7: soft expiry.  While a row whose expires_at is not in the future is
\* still stored, get_context returns absent for it, list_contexts omits it,
\* and update_context and delete_context return not-found and leave it as
\* it is.
C7_ExpiredRowsAreAbsent ==
    [][ \A op \in {"get_context", "list_contexts", "update_context", "delete_context"} :
          CallStep(op) /\ GetConnection(last'.tenant, last'.connects).ok =>
            LET ns == GetConnection(last'.tenant, last'.connects).namespace
            IN  \A i \in DOMAIN db[ns] :
                  Expired(db[ns][i]) =>
                    /\ last'.status = "ok"
                    /\ i \in DOMAIN db'[ns] /\ db'[ns][i] = db[ns][i]
                    /\ (op = "get_context" /\ last'.id = i) => last'.value = NULL
                    /\ op = "list_contexts" =>
                          \A k \in DOMAIN last'.value : last'.value[k].id # i
                    /\ (op \in {"update_context", "delete_context"} /\ last'.id = i)
                          => last'.value = FALSE ]_vars

C7_Witness ==
    /\ last.op = "get_context" /\ last.status = "ok" /\ last.value = NULL
    /\ LastConnected /\ Exists(LastNamespace, last.id)
    /\ Expired(db[LastNamespace][last.id])
    /\ db[LastNamespace][last.id].expires_at = Some(now)

\* C19: connection release.  Every connection acquired by get_connection
\* is closed exactly once on every exit path (normal completion, invalid
\* tenant id, namespace-switch failure, an exception raised by the query or
\* inside the caller's block); none is closed that was not acquired, and
\* none remains open once the gateway operation has ended.
C19_ConnectionReleased ==
    /\ connection.acquired => connection.closed = 1
    /\ ~connection.acquired => connection.closed = 0
    /\ connection.open = 0

\* A connection whose INSERT raised inside the caller's block was closed.
C19_Witness ==
    /\ last.op = "create_context"
    /\ connection.exit = "block raised"
    /\ connection.acquired
    /\ connection.closed = 1

\* C20: when the INSERT of create_context, sent over a tenant-scoped
\* connection of get_connection, meets an id that is already stored, the
\* caller receives the error "Context with this ID already exists", not the
\* generic "Failed to create context".
C20_UniqueViolationIsDistinct ==
    ( /\ last.op = "create_context"
      /\ connection.exit = "block raised"
      /\ Exists(LastNamespace, last.id) )
    => /\ last.status = "DatabaseError"
       /\ last.value = "Context with this ID already exists"

\* C21: partial update.  A successful update_context changes only the
\* fields supplied with a value (payload, title, description, tags,
\* expires_at) plus version and updated_at: a supplied field takes the
\* supplied value, a field that is not supplied keeps its previous value,
\* and id, type, owner and created_at are never changed.
C21_PartialUpdate ==
    [][ ( /\ CallStep("update_context")
          /\ last'.status = "ok" /\ last'.value = TRUE )
        => LET ns == GetConnection(last'.tenant, last'.connects).namespace
               old == db[ns][last'.id]
               new == db'[ns][last'.id]
               upd == last'.arg
           IN  /\ new.context_data =
                     IF upd.context_data # NULL
                     THEN Some(JsonDumps(ValueOf(upd.context_data)))
                     ELSE old.context_data
               /\ new.title = IF upd.title # NULL THEN upd.title ELSE old.title
               /\ new.description = IF upd.description # NULL
                                    THEN upd.description ELSE old.description
               /\ new.tags = IF upd.tags # NULL THEN upd.tags ELSE old.tags
               /\ new.expires_at = IF upd.expires_at # NULL
                                   THEN upd.expires_at ELSE old.expires_at
               /\ new.id = old.id
               /\ new.context_type = old.context_type
               /\ new.tenant_id = old.tenant_id
               /\ new.user_id = old.user_id
               /\ new.created_at = old.created_at ]_vars

\* An update that supplied the title alone: the title is the new one, the
\* payload, the description, the tags and the expiry are the stored ones.
C21_Witness ==
    /\ last.op = "update_context" /\ last.status = "ok" /\ last.value = TRUE
    /\ last.arg = [NoUpdate EXCEPT !.title = Some("T2")]
    /\ db[LastNamespace][last.id].title = Some("T2")
    /\ db[LastNamespace][last.id].context_data = Some(JsonDumps("P1"))
    /\ db[LastNamespace][last.id].description = NULL
    /\ db[LastNamespace][last.id].tags = Some("[]")
    /\ db[LastNamespace][last.id].version = 2

\* C31: namespace switch.  On every acquired connection the tenant id is
\* tested against the charset before anything is sent: for a tenant id of
\* the charset exactly one statement setting search_path to tenant_<id>,
\* public is sent, and it is the first statement of the connection, every
\* query coming after it; for a tenant id outside the charset no statement
\* is sent and the operation fails.
C31_NamespaceSwitchFirst ==
    /\ ~connection.acquired => connection.statements = <<>>
    /\ (last.op # "none" /\ connection.acquired) =>
          IF IsValidTenantCharset(last.tenant)
          THEN /\ Len(connection.statements) >= 1
               /\ connection.statements[1] = SwitchStatement(last.tenant)
               /\ \A i \in 2..Len(connection.statements) :
                     connection.statements[i].kind = "query"
          ELSE /\ connection.statements = <<>>
               /\ last.status = "DatabaseError"

\* A connection of a valid tenant over which the switch and then the
\* operation's query were sent.
C31_Witness ==
    /\ last.op = "get_context"
    /\ last.tenant = <<"b", "z">>
    /\ connection.acquired
    /\ connection.statements
          = << SwitchStatement(<<"b", "z">>), QueryStatement >>

\* What a successful reap removed, and what it left as it was.
Reaped(ns, i) == i \in DOMAIN db[ns] /\ i \notin DOMAIN db'[ns]
Reap ==
    CallStep("cleanup_expired_contexts") /\ last'.status = "ok"

\* The reap within the namespace its connection resolved: it removes
\* exactly the rows whose expires_at has passed, returns their number, and
\* leaves every row that reads still see, and every other namespace, as
\* they were.
ReapsTheExpired ==
    [][ Reap =>
          LET ns == GetConnection(last'.tenant, last'.connects).namespace
          IN  /\ \A i \in DOMAIN db[ns] : Reaped(ns, i) <=> Expired(db[ns][i])
              /\ \A i \in DOMAIN db[ns] : Visible(db[ns][i]) => ~Reaped(ns, i)
              /\ \A i \in DOMAIN db'[ns] :
                    i \in DOMAIN db[ns] /\ db'[ns][i] = db[ns][i]
              /\ last'.value
                    = Cardinality({ i \in DOMAIN db[ns] : Reaped(ns, i) })
              /\ \A n \in Namespaces \ {ns} : db'[n] = db[n] ]_vars

\* C32: reap.  A successful cleanup_expired_contexts(tenant) hard-deletes
\* exactly the records of that tenant whose expires_at has passed: a record
\* is removed if and only if it is a record of the tenant the call was
\* given and is expired; the call returns the number of records removed,
\* and no record that reads still see is removed.
C32_ReapsExpiredOfTenant ==
    [][ Reap =>
          /\ \A n \in Namespaces : \A i \in DOMAIN db[n] :
                Reaped(n, i) <=> ( /\ db[n][i].tenant_id = last'.tenant
                                   /\ Expired(db[n][i]) )
          /\ \A n \in Namespaces : \A i \in DOMAIN db[n] :
                Visible(db[n][i]) => ~Reaped(n, i)
          /\ last'.value
                = Cardinality({ p \in UNION { { <<n, i>> : i \in DOMAIN db[n] } :
                                              n \in Namespaces } :
                                  Reaped(p[1], p[2]) }) ]_vars


----------------------------------------------------------------------------
\* The calls of update_context on record id of namespace ns whose UPDATE
\* has been applied, and those that have returned success to their caller.
AppliedUpdates(ns, id) ==
    { p \in InFlight : puts[p].applied /\ NamespaceOf(p) = ns /\ puts[p].id = id }
SucceededUpdates(ns, id) ==
    { p \in AppliedUpdates(ns, id) : puts[p].updated }

\* C34: no version increment is lost.  Under every interleaving of
\* concurrent update_context calls on one record, the record's version is
\* 1 plus the number of UPDATEs applied to it; a call returns success only
\* after its UPDATE was applied, so once the k calls have returned success
\* and none is still awaiting its result, the version is 1 + k.
C34_NoLostIncrements ==
    \A ns \in Namespaces : \A id \in DOMAIN db[ns] :
        /\ db[ns][id].version = 1 + Cardinality(AppliedUpdates(ns, id))
        /\ SucceededUpdates(ns, id) = AppliedUpdates(ns, id) =>
              db[ns][id].version = 1 + Cardinality(SucceededUpdates(ns, id))

\* Two handlers, both past a successful update of the same record and
\* neither finished: the record is at version 3.
C34_Witness ==
    /\ \A p \in InFlight : puts[p].at = "read" /\ puts[p].id = "ctx_1"
    /\ puts[1].tenant = puts[2].tenant
    /\ "ctx_1" \in DOMAIN db[NamespaceOf(1)]
    /\ Cardinality(SucceededUpdates(NamespaceOf(1), "ctx_1")) = 2
    /\ db[NamespaceOf(1)]["ctx_1"].version = 3

\* C35: the update and the read-back of the PUT handler behave as one
\* step.  A PUT whose update succeeded answers 200 with the state its own
\* update produced, the version being the one before the update plus one.
C35_PutReadsOwnUpdate ==
    \A p \in InFlight :
        puts[p].at = "done" /\ puts[p].updated =>
            /\ ValueOf(puts[p].response).status = 200
            /\ ValueOf(ValueOf(puts[p].response).body).version = puts[p].pre + 1


\* The id is not visible to reads: no row is stored under it, or the row's
\* expiry has passed (a soft delete sets the expiry to the instant of the
\* delete).
Gone(ns, id) == ~Exists(ns, id) \/ Expired(db[ns][id])

\* C40: no resurrection.  Once the record of an id has been soft-deleted or
\* has expired, no gateway operation (create, update, delete, list, reap)
\* and no passing of time makes the id visible to reads again: an expired
\* row stays expired or is removed, and a removed id stays removed.
C40_NoResurrection ==
    [][ \A ns \in Namespaces : \A id \in ContextIds :
          Gone(ns, id) => Gone(ns, id)' ]_vars

\* An update that sets a later expiry was tried on a soft-deleted record
\* and changed nothing.
C40_Witness ==
    /\ last.op = "update_context"
    /\ last.status = "ok" /\ last.value = FALSE
    /\ last.arg.expires_at = Some(MaxTime)
    /\ now < MaxTime
    /\ \E ns \in Namespaces :
          /\ Exists(ns, last.id)
          /\ Expired(db[ns][last.id])
          /\ db[ns][last.id].expires_at = Some(db[ns][last.id].updated_at)
          /\ last.tenant \in TenantsOf(ns)

----------------------------------------------------------------------------
(* The rate limiter's specification.                                        *)

RateNext ==
    \/ \E client \in ClientKeys :
          rate_limit_check(client) /\ UNCHANGED <<gwVars, pipeline, authVars, httpVars>>
    \/ Tick /\ UNCHANGED <<gwVars, pipeline, rateVars, authVars, httpVars>>

SpecRate == IdleInit /\ [][RateNext]_vars

\* The limiter under concurrent requests.
RateConcNext ==
    \/ \E r \in InFlight, key \in ClientKeys :
          arrive(r, key) /\ UNCHANGED <<gwVars, pipeline, authVars, httpVars>>
    \/ \E r \in InFlight :
          evict(r) /\ UNCHANGED <<gwVars, pipeline, authVars, httpVars>>
    \/ \E r \in InFlight :
          test_limit(r) /\ UNCHANGED <<gwVars, pipeline, authVars, httpVars>>
    \/ \E r \in InFlight :
          append(r) /\ UNCHANGED <<gwVars, pipeline, authVars, httpVars>>
    \/ Tick /\ UNCHANGED <<gwVars, pipeline, rateVars, authVars, httpVars>>

SpecRateConc == IdleInit /\ [][RateConcNext]_vars

----------------------------------------------------------------------------
(* Properties of the rate limiter.                                          *)

\* How many requests of client k were allowed at a time t with s <= t < s + W.
AllowedInWindow(k, s) ==
    Cardinality({ i \in DOMAIN allowedAt[k] :
                    /\ s <= allowedAt[k][i]
                    /\ allowedAt[k][i] < s + RateLimitPeriod })

\* How many requests of client k were allowed less than W ago.
RecentlyAllowed(k) == AllowedInWindow(k, now - RateLimitPeriod + 1)

\* A step that is a rate_limit_check of client k.
RateStep(k) ==
    /\ limited'.key = k
    /\ (limited' # limited \/ requests' # requests)

\* C8: for a client key with limit N and window W, a request that follows
\* N allowed requests made less than W ago is rejected (429); a request is
\* allowed when fewer than N allowed requests were made less than W ago, so
\* once W has elapsed since the allowed requests a new one is allowed again;
\* and no window [s, s + W) ever holds more than N allowed requests of one
\* key.
C8_RateLimit ==
    [][ \A k \in ClientKeys : RateStep(k) =>
          /\ RecentlyAllowed(k) >= RateLimitCalls =>
                ~limited'.allowed /\ limited'.status = 429
          /\ RecentlyAllowed(k) < RateLimitCalls => limited'.allowed
          /\ \A s \in (0 - RateLimitPeriod)..MaxTime :
                AllowedInWindow(k, s)' <= RateLimitCalls ]_vars

\* A client used up its limit, was turned away, and after the window was
\* allowed again.
C8_Witness ==
    \E k \in ClientKeys :
        /\ Len(allowedAt[k]) = RateLimitCalls + 1
        /\ rejectedAt[k] # {}
        /\ limited.key = k /\ limited.allowed
        /\ \A i \in 1..RateLimitCalls :
              now - allowedAt[k][i] >= RateLimitPeriod

\* C33: rate limiter under concurrency.  With concurrent requests sharing
\* the limiter, under every interleaving no window [s, s + W) holds more
\* than N allowed requests of one client key, and the limiter's list of a
\* key never holds more than N timestamps; while a request is between its
\* eviction, its test and its append, no other request takes a step.
C33_ConcurrentRateLimit ==
    /\ [] ( \A k \in ClientKeys :
              /\ Len(requests[k]) <= RateLimitCalls
              /\ \A s \in (0 - RateLimitPeriod)..MaxTime :
                    AllowedInWindow(k, s) <= RateLimitCalls )
    /\ [][ \A r \in InFlight :
             inflight.reqs[r].at \in { "evicted", "tested" } =>
                \A q \in InFlight \ {r} : inflight'.reqs[q] = inflight.reqs[q]
         ]_vars

\* Two requests of one client were in the limiter at the same time, the
\* client having one request left: one was allowed, the other rejected.
C33_Witness ==
    /\ inflight.reqs[1].key = inflight.reqs[2].key
    /\ inflight.reqs[1].t = inflight.reqs[2].t
    /\ inflight.reqs[1].at = "allowed"
    /\ inflight.reqs[2].at = "rejected"
    /\ Len(allowedAt[inflight.reqs[1].key]) = RateLimitCalls
    /\ AllowedInWindow(inflight.reqs[1].key, inflight.reqs[1].t - 1)
          = RateLimitCalls


----------------------------------------------------------------------------
\* C39: a rejected request is not recorded.  A rate_limit_check of client
\* k that is rejected leaves k's stored timestamps as they were, apart from
\* the expired ones it evicts; no check of k touches the timestamps of
\* another client; no client ever has more than N timestamps stored; and
\* the timestamps that count for k are those of its allowed requests of the
\* last W, so that a rejected request never postpones the moment k is
\* allowed again.
C39_RejectedNotRecorded ==
    /\ [][ \A k \in ClientKeys : RateStep(k) =>
             /\ ~limited'.allowed => requests'[k] = CleanOld(requests[k])
             /\ \A j \in ClientKeys \ {k} : requests'[j] = requests[j]
         ]_vars
    /\ [] ( \A k \in ClientKeys :
              /\ Len(requests[k]) <= RateLimitCalls
              /\ CleanOld(requests[k]) = CleanOld(allowedAt[k]) )

\* Client ip1 is turned away with its N timestamps stored, ip2 holding
\* timestamps of its own.
C39_Witness ==
    /\ limited.key = "ip1" /\ ~limited.allowed
    /\ now \in rejectedAt["ip1"]
    /\ Len(requests["ip1"]) = RateLimitCalls
    /\ requests["ip1"] = allowedAt["ip1"]
    /\ requests["ip2"] # <<>>

----------------------------------------------------------------------------
(* The specification of the key cache and the validator.                    *)

AuthNext ==
    \/ \E force_refresh \in BOOLEAN, resp \in Responses :
          call_get_jwks(force_refresh, resp)
          /\ UNCHANGED <<gwVars, pipeline, rateVars, httpVars, fetching>>
    \/ \E kid \in Kids, r1 \in LookupResponses, r2 \in LookupResponses :
          call_get_key_by_kid(kid, r1, r2)
          /\ UNCHANGED <<gwVars, pipeline, rateVars, httpVars, fetching>>
    \/ \E token \in Tokens, required \in RequiredTenants,
          r1 \in LookupResponses, r2 \in LookupResponses :
          call_validate_token(token, required, r1, r2)
          /\ UNCHANGED <<gwVars, pipeline, rateVars, httpVars, fetching>>
    \/ Tick /\ UNCHANGED <<gwVars, pipeline, rateVars, authVars, httpVars>>

SpecAuth == IdleInit /\ [][AuthNext]_vars

\* The key cache under concurrent get_jwks calls.
FetchNext ==
    \/ \E f \in InFlight, force_refresh \in BOOLEAN :
          get_jwks_begin(f, force_refresh)
          /\ UNCHANGED <<gwVars, pipeline, rateVars, httpVars>>
    \/ \E f \in InFlight, resp \in Responses :
          get_jwks_end(f, resp)
          /\ UNCHANGED <<gwVars, pipeline, rateVars, httpVars>>
    \/ \E f \in InFlight :
          get_jwks_returned(f)
          /\ UNCHANGED <<gwVars, pipeline, rateVars, httpVars>>
    \/ Tick /\ UNCHANGED <<gwVars, pipeline, rateVars, authVars, httpVars>>

SpecFetch == IdleInit /\ [][FetchNext]_vars

----------------------------------------------------------------------------
(* Properties of the key cache and the validator.                           *)

\* A step that is a call op of the key cache or the validator: the clock
\* stands still, and auth' tells the call and what it came to.
AuthStep(op) == auth'.op = op /\ now' = now

\* The first key set the call looked in held no key of the kid.
MissedAtFirst(a) ==
    Len(a.seen) >= 1 /\ FindKey(a.seen[1], ValueOf(a.kid)) = NULL

\* C9: one get_key_by_kid(kid) call whose first key set (the cached one,
\* when the cache is valid) holds no key of the kid makes exactly one
\* forced refresh; when the refresh returns a key set, that set is the
\* cache afterwards and the call returns its key of the kid, or None when
\* it has none; a call that finds the key at first makes no forced
\* refresh; and no call makes more than 2 fetches.
C9_LookupRefreshesOnceOnMiss ==
    [][ AuthStep("get_key_by_kid") =>
          /\ auth'.fetches <= 2
          /\ CacheValid(keysCache, cacheTimestamp) /\ auth'.seen # <<>> =>
                auth'.seen[1] = ValueOf(keysCache)
          /\ MissedAtFirst(auth') =>
                /\ auth'.forced = 1
                /\ auth'.fetches >= 1
                /\ auth'.raises = "none" =>
                      /\ Len(auth'.seen) = 2
                      /\ keysCache' = Some(auth'.seen[2])
                      /\ cacheTimestamp' = now
                      /\ auth'.key = FindKey(auth'.seen[2], ValueOf(auth'.kid))
          /\ ~MissedAtFirst(auth') =>
                /\ auth'.forced = 0
                /\ auth'.fetches <= 1
                /\ auth'.raises = "none" =>
                      auth'.key = FindKey(auth'.seen[1], ValueOf(auth'.kid))
      ]_vars

\* A lookup missed in the valid cache and found the key in the refreshed
\* set, with one fetch.
C9_Witness ==
    /\ auth.op = "get_key_by_kid"
    /\ MissedAtFirst(auth)
    /\ Len(auth.seen) = 2
    /\ auth.key # NULL
    /\ auth.forced = 1
    /\ auth.fetches = 1
    /\ keysCache = Some(auth.seen[2])

\* The token's signature and standard claims are valid: it decodes under
\* the key the lookup returned, and its subject is a non-empty string.
ValidApartFromTenant(a) ==
    /\ a.token # NULL
    /\ ValueOf(a.token).wellformed
    /\ a.key # NULL
    /\ ValueOf(a.token).alg \in {"RS256", "ES256"}
    /\ ValueOf(a.token).signed_with = ValueOf(a.key).pub
    /\ ValueOf(a.token).exp >= now
    /\ ValueOf(a.token).sub \notin { NULL, Some("") }

\* The token carries a tenant_id claim other than the required tenant.
TenantDiffers(a) ==
    /\ a.token # NULL /\ a.required # NULL
    /\ ValueOf(a.token).tenant_id # NULL
    /\ ValueOf(ValueOf(a.token).tenant_id) # ValueOf(a.required)

IsTenantMismatch(message) ==
    message # <<>> /\ Head(message) = "Tenant mismatch: expected "

C10_FetchFailureIsUnavailable ==
    [][ now' = now /\ auth'.failure # NULL =>
          /\ auth'.op = "get_jwks" =>
                /\ auth'.raises = "JWKSError"
                /\ keysCache' = keysCache
                /\ cacheTimestamp' = cacheTimestamp
          /\ auth'.op = "validate_token" =>
                /\ auth'.raises = "JWTValidationError"
                /\ auth'.message = <<"Authentication service unavailable">>
      ]_vars

\* C27: a kid that a lookup did not find is not fetched for again while
\* the cache is fresh: when get_key_by_kid returned None for a kid and the
\* next call looks the same kid up with the cache still valid, that call
\* makes no fetch.
C27_OneForcedFetchPerUnknownKid ==
    [][ ( /\ AuthStep("get_key_by_kid")
          /\ auth.op = "get_key_by_kid"
          /\ auth.raises = "none"
          /\ auth.key = NULL
          /\ auth'.kid = auth.kid
          /\ CacheValid(keysCache, cacheTimestamp) )
        => auth'.fetches = 0 ]_vars

\* C36: the key cache follows its newest fetch.  With concurrent get_jwks
\* calls that both find the cache stale, the stored fetch timestamp never
\* decreases, and a fetch that started earlier never overwrites the key
\* set stored by a fetch that started later.
C36_CacheFollowsNewestFetch ==
    [][ /\ cacheTimestamp' >= cacheTimestamp
        /\ fetching'.stored_by >= fetching.stored_by ]_vars


\* The cache holds no key set, or one whose age has reached the TTL.
Stale == keysCache = NULL \/ now - cacheTimestamp >= cache_ttl

\* C37: no stale keys.  get_key_by_kid on a cache whose age is at least the
\* TTL returns a key only after a successful re-fetch made by the call, the
\* key being the one of the fetched set, which is the cache afterwards; if
\* the fetch fails the call fails and returns no key, the stale cache
\* holding the kid or not.
C37_NoStaleKeys ==
    [][ AuthStep("get_key_by_kid") /\ Stale =>
          /\ auth'.fetches >= 1
          /\ auth'.raises = "none" =>
                /\ keysCache' # NULL
                /\ cacheTimestamp' = now
                /\ keysCache' = Some(auth'.seen[Len(auth'.seen)])
                /\ auth'.key = FindKey(ValueOf(keysCache'), ValueOf(auth'.kid))
          /\ auth'.raises # "none" => auth'.key = NULL
          /\ (keysCache' = keysCache /\ cacheTimestamp' = cacheTimestamp
                /\ keysCache # NULL) =>
                auth'.raises # "none" /\ auth'.key = NULL
      ]_vars

\* The cache went stale holding the key of the kid, the re-fetch failed,
\* and the call failed.
C37_Witness ==
    /\ auth.op = "get_key_by_kid"
    /\ keysCache # NULL
    /\ now - cacheTimestamp >= cache_ttl
    /\ FindKey(ValueOf(keysCache), ValueOf(auth.kid)) # NULL
    /\ auth.fetches = 1
    /\ auth.raises = "JWKSError"
    /\ auth.key = NULL

----------------------------------------------------------------------------
(* The specification of the middleware chain.                               *)

HttpNext ==
    \/ \E req \in HttpRequests, resp \in HttpResponses :
          handle_request(req, resp) /\ UNCHANGED <<gwVars, pipeline, auth, fetching>>
    \/ Tick /\ UNCHANGED <<gwVars, pipeline, rateVars, authVars, httpVars>>

\* The service starts with its settings read: the tenant header is
\* required, as by default, or is not.
HttpStart ==
    /\ now = 0
    /\ RateInit
    /\ AuthInit
    /\ require_tenant_id \in BOOLEAN
    /\ http = NoRequest
    /\ tenant_format = NoTenantFormat
    /\ db = [ ns \in Namespaces |-> EmptyTable ]
    /\ last = NoCall
    /\ connection = NoConnection
    /\ puts = NoPuts
    /\ pipeline = NoPipeline

SpecHttp == HttpStart /\ [][HttpNext]_vars

----------------------------------------------------------------------------
(* Properties of the middleware chain.                                      *)

\* The tenant_id claim of the request's bearer token; NULL when the
\* request carries no token or the token no claim.
TokenTenant(req) ==
    IF req.authorization = NULL THEN NULL
    ELSE IF ValueOf(req.authorization).token = NULL THEN NULL
    ELSE ValueOf(ValueOf(req.authorization).token).tenant_id

\* C2: a request to a non-exempt path with X-Tenant-ID = T whose route
\* handler is dispatched had its bearer token validated with required
\* tenant T, every time it was validated, and the token's tenant_id claim
\* is T; and a request whose token's tenant_id claim differs from the
\* header's tenant, or is missing, ends with an error raised by the header
\* or the token middleware, before the route.
C2_HeaderTokenTenantConsistency ==
    [][ now' = now /\ http'.stage # "none"
        /\ http'.request.path \notin exempt_paths
        /\ http'.request.tenant_header # NULL =>
          /\ http'.stage = "handler" =>
                /\ http'.status = 200
                /\ http'.tenant_id = http'.request.tenant_header
                /\ http'.required # <<>>
                /\ \A i \in 1..Len(http'.required) :
                      http'.required[i] = http'.request.tenant_header
                /\ TokenTenant(http'.request) = http'.request.tenant_header
                /\ http'.payload # NULL
                /\ ValueOf(http'.payload).tenant_id
                      = http'.request.tenant_header
          /\ TokenTenant(http'.request) # http'.request.tenant_header =>
                /\ http'.stage \in { "HeaderValidationMiddleware",
                                     "JWTValidationMiddleware" }
                /\ http'.status \in { 400, 401, 403, 500 }
      ]_vars

\* A request of a tenant reached its handler, its token validated twice
\* with the header's tenant.
C2_Witness ==
    /\ http.stage = "handler"
    /\ http.request.path \notin exempt_paths
    /\ http.request.tenant_header # NULL
    /\ Len(http.required) = 2
    /\ TokenTenant(http.request) = http.request.tenant_header

\* The stage was entered for the request.
Ran(h, stage) == \E i \in 1..Len(h.ran) : h.ran[i] = stage

\* The step serves one request.
Served == now' = now /\ http'.stage # "none"

\* C22: a request ends with exactly one terminal response, the
\* HTTPException of one stage or the answer of the route's handler; when
\* header validation, token validation or rate limiting rejects it, the
\* rejecting stage is the last one entered, the handler's body does not
\* run, and a request rejected before the rate limiter leaves the limiter
\* untouched.
C22_OneTerminalResponse ==
    [][ Served =>
          /\ Len(http'.raised) + (IF Ran(http', "handler") THEN 1 ELSE 0) = 1
          /\ http'.raised # <<>> =>
                /\ http'.stage = http'.raised[1].stage
                /\ http'.status = http'.raised[1].status
                /\ ~Ran(http', "handler")
                /\ http'.stage # "rate_limit_check" =>
                      /\ ~Ran(http', "rate_limit_check")
                      /\ UNCHANGED rateVars
                /\ http'.stage = "HeaderValidationMiddleware" =>
                      /\ ~Ran(http', "JWTValidationMiddleware")
                      /\ ~Ran(http', "get_current_user")
                      /\ UNCHANGED jwksVars
          /\ http'.raised = <<>> => http'.stage = "handler" /\ http'.status = 200
      ]_vars

\* The rate limiter turned a request with a valid token away: the request
\* ended there with 429.
C22_Witness ==
    /\ http.stage = "rate_limit_check"
    /\ http.status = 429
    /\ Len(http.raised) = 1
    /\ Ran(http, "get_current_user")
    /\ ~Ran(http, "handler")
    /\ limited.allowed = FALSE

\* The request failed authentication: the token middleware or the route's
\* get_current_user raised for it.
AuthFailure(h) ==
    /\ h.raised # <<>>
    /\ h.stage \in { "JWTValidationMiddleware", "get_current_user" }

\* What the HTTPException of the stage gives the caller: its status code
\* and the error code of its detail.
Presented(h) == [ status |-> h.status, error_code |-> h.error_code ]

\* C23: authentication failures are presented uniformly: two requests that
\* fail authentication one after the other, for whatever reasons (token
\* missing, invalid or expired, key unknown, tenant mismatch, issuer
\* unavailable), are given the same status and the same error code.
C23_UniformAuthFailures ==
    [][ AuthFailure(http) /\ AuthFailure(http')
          => Presented(http') = Presented(http) ]_vars

\* Stage b was entered only after stage a.
Precedes(h, a, b) ==
    \A j \in 1..Len(h.ran) :
        h.ran[j] = b => \E i \in 1..(j - 1) : h.ran[i] = a

C25_SecurityHeadersOnEveryResponse ==
    http.stage # "none" => http.security_headers

\* The bearer token the request carries, if any.
BearerToken(req) ==
    IF req.authorization = NULL THEN NULL
    ELSE IF ValueOf(req.authorization).scheme # "bearer" THEN NULL
    ELSE ValueOf(req.authorization).token

\* C26: a request to a path outside the exempt list /healthz, /metrics,
\* /docs, /redoc, /openapi.json, / reaches its handler only if it carried
\* a bearer token that the token middleware validated: a well-formed
\* token of an allowed algorithm, signed with a published key and not
\* expired, whose payload was stored; a request to an exempt path reaches
\* its handler with neither its headers nor a token validated.
C26_NoUnauthenticatedDispatch ==
    [][ Served =>
          /\ ( /\ Ran(http', "handler")
               /\ http'.request.path \notin
                     { "/healthz", "/metrics", "/docs", "/redoc",
                       "/openapi.json", "/" } ) =>
                /\ BearerToken(http'.request) # NULL
                /\ Ran(http', "JWTValidationMiddleware")
                /\ Len(http'.required) >= 1
                /\ http'.payload =
                      Some(PayloadOf(ValueOf(BearerToken(http'.request))))
                /\ ValueOf(BearerToken(http'.request)).wellformed
                /\ ValueOf(BearerToken(http'.request)).alg
                      \in AllowedAlgorithms
                /\ ValueOf(BearerToken(http'.request)).signed_with = "m1"
                /\ ValueOf(BearerToken(http'.request)).exp >= now
          /\ http'.request.path
                \in { "/healthz", "/metrics", "/docs", "/redoc",
                      "/openapi.json", "/" } =>
                /\ Ran(http', "handler")
                /\ http'.raised = <<>>
                /\ http'.tenant_id = NULL
                /\ http'.required = <<>>
                /\ UNCHANGED jwksVars
      ]_vars

\* A request to /context without an Authorization header was turned away
\* by the token middleware.
C26_Witness ==
    /\ http.request.path = "/context"
    /\ http.request.authorization = NULL
    /\ http.stage = "JWTValidationMiddleware"
    /\ http.status = 401
    /\ ~Ran(http, "handler")


\* The format checks, on every tenant id up to MaxTenantLen characters.
FormatNext ==
    \/ \E t \in TenantIds :
          check_tenant_format(t)
          /\ UNCHANGED <<gwVars, pipeline, rateVars, authVars>>
    \/ Tick /\ UNCHANGED <<gwVars, pipeline, rateVars, authVars, httpVars>>

SpecFormat == IdleInit /\ [][FormatNext]_vars

\* C38: every X-Tenant-ID that _is_valid_tenant_id accepts is accepted by
\* the re-validation of set_search_path, and the namespace switch made for
\* it succeeds: a request that passed the middleware never fails in the
\* gateway because of the format of its tenant id.
C38_MiddlewareAcceptsOnlyWhatGatewayAccepts ==
    tenant_format.middleware =>
        tenant_format.gateway /\ tenant_format.switched

----------------------------------------------------------------------------
(* The specification of the summarization pipeline.                         *)

SumNext ==
    \/ \E request \in SummarizationRequests, sentence_transformer \in BOOLEAN :
          generate_summary(request, sentence_transformer)
          /\ UNCHANGED <<now, gwVars, rateVars, authVars, httpVars>>
    \/ \E out \in BackendOutcomes :
          primary_attempt(out)
          /\ UNCHANGED <<now, gwVars, rateVars, authVars, httpVars>>
    \/ \E out \in BackendOutcomes :
          local_fallback(out)
          /\ UNCHANGED <<now, gwVars, rateVars, authVars, httpVars>>

SpecSum == IdleInit /\ [][SumNext]_vars

\* An awaited backend call comes back, with a summary or an exception: the
\* event loop resumes generate_summary, which awaits one call at a time.
BackendAnswers ==
    \/ \E out \in BackendOutcomes :
          primary_attempt(out)
          /\ UNCHANGED <<now, gwVars, rateVars, authVars, httpVars>>
    \/ \E out \in BackendOutcomes :
          local_fallback(out)
          /\ UNCHANGED <<now, gwVars, rateVars, authVars, httpVars>>

SpecSumLive == IdleInit /\ [][SumNext]_vars /\ WF_vars(BackendAnswers)

----------------------------------------------------------------------------
(* Properties of the summarization pipeline.                                *)

Responded == pipeline.pc = "returned"
Failing == pipeline.pc = "raised"
Threshold == pipeline.request.semantic_threshold
NumCalls == Len(pipeline.calls)

\* A call that gave a summary scoring at or above the threshold.
Met(c) == ~c.raised /\ c.score >= Threshold
Below(c) == ~c.raised /\ c.score < Threshold

\* The calls of the requested backend, in order: the fallback of a request
\* for another backend is the one call whose model_type is not the
\* request's.
IsPrimary(c) == c.model_type = pipeline.request.ai_model
PrimaryCalls == SelectSeq(pipeline.calls, IsPrimary)
BudgetExhausted == pipeline.attempts >= pipeline.request.retry_attempts

\* C11: summarization success.  Whenever generate_summary returns a
\* response, its semantic_score is at or above the request's threshold and
\* its refined_text is the text of the call that achieved that score; the
\* call that first scores at or above the threshold is the last call of the
\* request (the engine returns at once and calls no backend after it).
C11_SuccessMeetsThreshold ==
    /\ Responded =>
          /\ pipeline.response.semantic_score >= Threshold
          /\ NumCalls >= 1
          /\ Met(pipeline.calls[NumCalls])
          /\ pipeline.response.refined_text = pipeline.calls[NumCalls].text
          /\ pipeline.response.semantic_score = pipeline.calls[NumCalls].score
    /\ \A i \in 1..NumCalls :
          Met(pipeline.calls[i]) => i = NumCalls /\ Responded

\* A response returned on the third attempt, after two attempts and a
\* fallback that scored below the threshold.
C11_Witness ==
    /\ Responded
    /\ NumCalls = 4
    /\ \A i \in 1..3 : Below(pipeline.calls[i])
    /\ pipeline.response.refined_text = Text(pipeline.request.ai_model, 3)

\* C12: threshold failure.  When the retry budget is exhausted, at least one
\* summary was produced and every summary produced scored below the
\* threshold, generate_summary raises SemanticThresholdError carrying the
\* number of attempts made and the best score achieved.
C12_ThresholdFailure ==
    ( /\ pipeline.pc \in {"returned", "raised"}
      /\ BudgetExhausted
      /\ \E i \in 1..NumCalls : ~pipeline.calls[i].raised
      /\ \A i \in 1..NumCalls : ~Met(pipeline.calls[i]) )
    => /\ Failing
       /\ pipeline.error.type = "SemanticThresholdError"
       /\ pipeline.error.attempts = pipeline.attempts
       /\ \A i \in 1..NumCalls :
             pipeline.error.best_score >= pipeline.calls[i].score

\* C13: total backend failure.  When every backend invocation of the request
\* raised (the requested backend on every attempt, and the local fallback),
\* generate_summary raises ModelError and no other exception type.
C13_TotalFailureIsModelError ==
    ( /\ pipeline.pc \in {"returned", "raised"}
      /\ BudgetExhausted
      /\ \A i \in 1..NumCalls : pipeline.calls[i].raised )
    => Failing /\ pipeline.error.type = "ModelError"

\* C14: retry accounting.  When the requested backend's attempts 1..k-1
\* scored below the threshold and attempt k scored at or above it,
\* generate_summary returns the k-th attempt's text with retry_count = k-1,
\* exactly k-1 warnings, and status partial_success when k > 1.
C14_RetryAccounting ==
    ( /\ Len(PrimaryCalls) >= 1
      /\ \A i \in 1..(Len(PrimaryCalls) - 1) : Below(PrimaryCalls[i])
      /\ Met(PrimaryCalls[Len(PrimaryCalls)]) )
    => /\ Responded
       /\ pipeline.response.refined_text =
             Text(pipeline.request.ai_model, Len(PrimaryCalls))
       /\ pipeline.response.retry_count = Len(PrimaryCalls) - 1
       /\ Len(pipeline.response.warnings) = Len(PrimaryCalls) - 1
       /\ Len(PrimaryCalls) > 1 => pipeline.response.status = "partial_success"

\* C15: fallback success.  When the requested backend is not the local one
\* and fails (error or timeout) on the first attempt, and the local
\* fallback gives a summary scoring at or above the threshold,
\* generate_summary returns the fallback's text with model_used local,
\* status partial_success, retry_count 0 and a first warning that names the
\* fallback.
C15_FallbackSuccess ==
    ( /\ pipeline.request.ai_model # "local"
      /\ NumCalls >= 2
      /\ pipeline.calls[1].raised
      /\ pipeline.calls[2].model_type = "local"
      /\ Met(pipeline.calls[2]) )
    => /\ Responded
       /\ pipeline.response.refined_text = Text("local", 0)
       /\ pipeline.response.model_used = "local"
       /\ pipeline.response.status = "partial_success"
       /\ pipeline.response.retry_count = 0
       /\ pipeline.response.warnings # <<>>
       /\ pipeline.response.warnings[1] = FallbackUsed

\* The requested backend timed out and the fallback's summary was returned.
C15_Witness ==
    /\ Responded
    /\ pipeline.request.ai_model = "openai"
    /\ NumCalls = 2
    /\ pipeline.calls[1].failure = "timeout"
    /\ pipeline.response.refined_text = Text("local", 0)

\* C16: in every returned response, model_used names the backend that
\* generated the returned refined_text: local only when the text came from
\* the local fallback, the requested model otherwise.
C16_ModelUsedNamesTheGenerator ==
    Responded =>
        /\ pipeline.response.model_used = pipeline.response.refined_text.by
        /\ pipeline.response.model_used
              \in {"local", pipeline.request.ai_model}

\* C17: unknown backend.  A request whose model identifier is not a known
\* backend fails with ModelError, and no backend, the local fallback
\* included, is used for it.
C17_UnknownModelIsModelError ==
    pipeline.request.ai_model \notin KnownModels =>
        /\ \A i \in 1..NumCalls : ~pipeline.calls[i].invoked
        /\ ~Responded
        /\ Failing => pipeline.error.type = "ModelError"

\* C18: scorer failure.  When the embedding raises or the scorer is not
\* initialised, the scorer answers exactly 0.5 and the attempt proceeds
\* with that score; every score the engine sees lies in [0, 1].
C18_ScorerDefaultsAndRange ==
    \A i \in 1..NumCalls :
        ~pipeline.calls[i].raised =>
            /\ pipeline.calls[i].score \in 0..100
            /\ ( ~pipeline.sentence_transformer
                 \/ pipeline.calls[i].similarity.kind = "raises" )
               => /\ pipeline.calls[i].score = DefaultScore
                  /\ pipeline.best_score >= DefaultScore

\* An attempt whose embedding raised went on with 0.5, and a later attempt
\* whose cosine came out above 1 was scored 1.
C18_Witness ==
    /\ pipeline.sentence_transformer
    /\ NumCalls >= 2
    /\ pipeline.calls[1].similarity = EncodeRaises
    /\ pipeline.calls[1].score = DefaultScore
    /\ pipeline.calls[NumCalls].similarity = Sim(130)
    /\ pipeline.calls[NumCalls].score = 100
    /\ Responded

\* C28: the local fallback is invoked only after a failure of the
\* requested backend, right after its first failure: whenever the fallback
\* is about to be invoked, the call before it is a call of the requested
\* backend that raised and no earlier call of the request raised; a first
\* attempt that gave a summary scoring below the threshold is followed by
\* no fallback.
C28_FallbackOnlyAfterPrimaryFailure ==
    pipeline.pc = "fallback" =>
        /\ NumCalls >= 1
        /\ IsPrimary(pipeline.calls[NumCalls])
        /\ pipeline.calls[NumCalls].raised
        /\ \A i \in 1..(NumCalls - 1) : ~pipeline.calls[i].raised

\* The calls of a request that are not calls of its requested backend.
FallbackCalls(p) ==
    SelectSeq(p.calls, LAMBDA c : c.model_type # p.request.ai_model)
RequestedCalls(p) ==
    SelectSeq(p.calls, LAMBDA c : c.model_type = p.request.ai_model)

\* The step invokes the fallback.
FallbackStep == pipeline.pc = "fallback" /\ pipeline' # pipeline

\* C29: the fallback is invoked at most once in a request and never for a
\* request whose backend is the local one, and it leaves the retry budget
\* alone: the step that invokes it does not count as an attempt, the
\* attempts counted are the calls of the requested backend, and these
\* never exceed retry_attempts.
C29_FallbackAtMostOnce ==
    [][ /\ pipeline'.pc = "fallback" =>
              pipeline'.request.ai_model # "local"
        /\ FallbackStep =>
              /\ pipeline.request.ai_model # "local"
              /\ FallbackCalls(pipeline) = <<>>
              /\ Len(pipeline'.calls) = Len(pipeline.calls) + 1
              /\ pipeline'.calls[Len(pipeline'.calls)].model_type = "local"
              /\ pipeline'.attempts = pipeline.attempts
        /\ Len(FallbackCalls(pipeline')) <= 1
        /\ pipeline'.attempts = Len(RequestedCalls(pipeline'))
        /\ pipeline'.attempts <= pipeline'.request.retry_attempts
      ]_vars

\* After a fallback the requested backend was tried three times in all,
\* the retry budget of the request.
C29_Witness ==
    /\ pipeline.request.ai_model = "openai"
    /\ pipeline.request.retry_attempts = 3
    /\ Len(FallbackCalls(pipeline)) = 1
    /\ Len(RequestedCalls(pipeline)) = 3
    /\ pipeline.calls[2].model_type = "local"

\* generate_summary is at an await of a backend call.
Awaiting == pipeline.pc \in { "primary", "fallback" }
Terminated == pipeline.pc \in { "returned", "raised" }

\* C30: generate_summary terminates, whatever the backends and the scorer
\* answer: a request that awaits a backend is eventually returned from or
\* raised from; up to then the requested backend was invoked at most
\* retry_attempts times and the fallback at most once; and the calls are
\* made one after another, each step of the request adding one call.
C30_Termination ==
    /\ [] ( /\ Len(RequestedCalls(pipeline))
                 <= pipeline.request.retry_attempts
            /\ Len(FallbackCalls(pipeline)) <= 1
            /\ Len(pipeline.calls) <= pipeline.request.retry_attempts + 1 )
    /\ [][ Awaiting => Len(pipeline'.calls) = Len(pipeline.calls) + 1 ]_vars
    /\ Awaiting ~> Terminated

\* A request with retry_attempts 3 returned after the most calls it can
\* make: three of the requested backend and the fallback.
C30_Witness ==
    /\ pipeline.pc = "returned"
    /\ pipeline.request.retry_attempts = 3
    /\ Len(pipeline.calls) = 4
    /\ Len(FallbackCalls(pipeline)) = 1
    /\ pipeline.response.retry_count = 2

====
